---- MODULE Spec2Model ----
(***************************************************************************)
(* DIDService (backend/src/DIDService.ts): the did:key method for          *)
(* secp256k1 keys.  constructDidFromPublicKeyHex frames a compressed       *)
(* public key with the multicodec header, base58btc-encodes it and builds  *)
(* the DID Document; resolveDidKey parses a did:key string back, running   *)
(* its validation chain, and rebuilds the document.                        *)
(*                                                                         *)
(* IdentityLookupService and IdentityStorageManager: the overlay handlers *)
(* outputAdded, outputSpent, outputDeleted, outputEvicted and              *)
(* outputAdmittedByTopic over the identityRecords collection.             *)
(*                                                                         *)
(* Strings whose characters the code inspects (the did, the multibase     *)
(* string, hex input) are sequences of one-character strings; bytes are    *)
(* integers 0..255; fixed literals (URIs, messages) are plain strings.     *)
(***************************************************************************)
EXTENDS Integers, Sequences, FiniteSets, TLC

\* ------------------------------------------------------------------------
\* Bounds of the checked input space

\* filler patterns for the 32 coordinate bytes: pattern f is byte i = (i*7*f) % 256
MaxFill == 1
\* decoded payload lengths run over 35 - MaxDelta .. 35 + MaxDelta
MaxDelta == 1

\* ------------------------------------------------------------------------
\* Program constants

\* 33 for compressed secp256k1
CompressedKeyLength == 33
Byte == 256

DID_KEY_PREFIX == << "d", "i", "d", ":", "k", "e", "y", ":" >>
MULTICODEC_SECP256K1_PUB_HEADER == << 231, 1 >>

\* The messages of the errors resolveDidKey throws, under the names of the
\* error kinds.
NotDidKeyMethod == "Invalid DID: Must start with did:key:"
UnsupportedMultibasePrefix ==
  "Invalid did:key: Public key must be multibase base58btc encoded (start with z)"
MultibaseDecodeError == "Invalid did:key: Failed to decode base58btc public key."
UnsupportedKeyCodec ==
  "Invalid did:key: Public key does not have a valid secp256k1 multicodec prefix."
InvalidFramedLength ==
  "Invalid did:key: Decoded public key length is incorrect for secp256k1."
InvalidCompressionMarker ==
  "Invalid did:key: Compressed public key must start with 0x02 or 0x03."

\* ------------------------------------------------------------------------
\* String helpers (String.prototype.startsWith / substring)

startsWith(s, p) == Len(s) >= Len(p) /\ SubSeq(s, 1, Len(p)) = p

substring(s, n) == SubSeq(s, n + 1, Len(s))

RECURSIVE Reverse(_)
Reverse(s) == IF s = <<>> THEN <<>> ELSE Reverse(Tail(s)) \o <<Head(s)>>

\* ------------------------------------------------------------------------
\* The base58 primitive (toBase58 / fromBase58 of @bsv/sdk/primitives/utils):
\* Bitcoin/IPFS alphabet, positional conversion between base 256 and base 58,
\* one leading '1' per leading zero byte.

base58chars ==
  << "1", "2", "3", "4", "5", "6", "7", "8", "9",
     "A", "B", "C", "D", "E", "F", "G", "H", "J", "K", "L", "M", "N", "P", "Q",
     "R", "S", "T", "U", "V", "W", "X", "Y", "Z",
     "a", "b", "c", "d", "e", "f", "g", "h", "i", "j", "k", "m", "n", "o", "p",
     "q", "r", "s", "t", "u", "v", "w", "x", "y", "z" >>

Base58Radix == Len(base58chars)

RECURSIVE PushCarry(_, _)
PushCarry(carry, to) ==
  IF carry = 0 THEN <<>> ELSE <<carry % to>> \o PushCarry(carry \div to, to)

\* digits (little-endian, radix `to`) times `from` plus carry
RECURSIVE MulAdd(_, _, _, _)
MulAdd(digits, carry, from, to) ==
  IF digits = <<>> THEN PushCarry(carry, to)
  ELSE LET x == Head(digits) * from + carry
       IN  <<x % to>> \o MulAdd(Tail(digits), x \div to, from, to)

RECURSIVE Convert(_, _, _, _)
Convert(src, acc, from, to) ==
  IF src = <<>> THEN acc
  ELSE Convert(Tail(src), MulAdd(acc, Head(src), from, to), from, to)

RECURSIVE LeadingCount(_, _)
LeadingCount(s, v) ==
  IF s # <<>> /\ Head(s) = v THEN 1 + LeadingCount(Tail(s), v) ELSE 0

toBase58(bin) ==
  LET zeros  == LeadingCount(bin, 0)
      digits == Convert(substring(bin, zeros), <<>>, Byte, Base58Radix)
      all    == [i \in 1..zeros |-> 0] \o Reverse(digits)
  IN  [i \in 1..Len(all) |-> base58chars[all[i] + 1]]

indexOf(c) ==
  IF \E i \in 1..Base58Radix : base58chars[i] = c
  THEN (CHOOSE i \in 1..Base58Radix : base58chars[i] = c) - 1
  ELSE -1

Base58Error == "base58 primitive: invalid input"

\* rejectsEmpty: whether this build's primitive throws on the empty string or
\* returns the empty byte array for it.
fromBase58(str, rejectsEmpty) ==
  IF str = <<>>
  THEN IF rejectsEmpty THEN [ok |-> FALSE, error |-> Base58Error, bytes |-> <<>>]
       ELSE [ok |-> TRUE, error |-> "", bytes |-> <<>>]
  ELSE IF \E i \in 1..Len(str) : indexOf(str[i]) = -1
  THEN [ok |-> FALSE, error |-> Base58Error, bytes |-> <<>>]
  ELSE LET ones   == LeadingCount(str, "1")
           rest   == substring(str, ones)
           values == [i \in 1..Len(rest) |-> indexOf(rest[i])]
           bytes  == Convert(values, <<>>, Base58Radix, Byte)
       IN  [ok |-> TRUE, error |-> "",
            bytes |-> [i \in 1..ones |-> 0] \o Reverse(bytes)]

\* ------------------------------------------------------------------------
\* PublicKey.fromString(publicKeyHex).encode(true) of @bsv/sdk: the key parsed
\* from hex and serialised in compressed form.  A compressed key comes back
\* byte for byte; an uncompressed one (04 ++ x ++ y) as (02 | 03 by the parity
\* of y) ++ x.

hexchars ==
  << "0", "1", "2", "3", "4", "5", "6", "7", "8", "9", "a", "b", "c", "d", "e", "f" >>

HexRadix == Len(hexchars)

hexValue(c) == (CHOOSE i \in 1..HexRadix : hexchars[i] = c) - 1

toHex(bytes) ==
  [i \in 1..(2 * Len(bytes)) |->
     LET b == bytes[(i + 1) \div 2]
     IN  hexchars[(IF i % 2 = 1 THEN b \div HexRadix ELSE b % HexRadix) + 1]]

toArray(hex) ==
  [i \in 1..(Len(hex) \div 2) |->
     hexValue(hex[2 * i - 1]) * HexRadix + hexValue(hex[2 * i])]

encodeCompressed(publicKeyHex) ==
  LET raw == toArray(publicKeyHex)
  IN  IF raw[1] = 4
      THEN LET x == SubSeq(raw, 2, CompressedKeyLength)
               y == SubSeq(raw, CompressedKeyLength + 1, Len(raw))
           IN  <<IF y[Len(y)] % 2 = 0 THEN 2 ELSE 3>> \o x
      ELSE raw

\* ------------------------------------------------------------------------
\* constructDidFromPublicKeyHex

\* mutant: the delegation role refers to the did, not to the verification method
ConstructDocument_DelegatesToDid(did, publicKeyMultibase) ==
  LET verificationMethodId == did \o <<"#">> \o publicKeyMultibase
  IN  [ context |-> << "https://www.w3.org/ns/did/v1",
                       "https://w3id.org/security/multikey/v1" >>,
        id |-> did,
        verificationMethod |->
          << [ id |-> verificationMethodId,
               type |-> "Multikey",
               controller |-> did,
               publicKeyMultibase |-> publicKeyMultibase ] >>,
        authentication |-> << verificationMethodId >>,
        assertionMethod |-> << verificationMethodId >>,
        capabilityInvocation |-> << verificationMethodId >>,
        capabilityDelegation |-> << did >> ]

ConstructDocument(did, publicKeyMultibase) ==
  LET verificationMethodId == did \o <<"#">> \o publicKeyMultibase
  IN  [ context |-> << "https://www.w3.org/ns/did/v1",
                       "https://w3id.org/security/multikey/v1" >>,
        id |-> did,
        verificationMethod |->
          << [ id |-> verificationMethodId,
               type |-> "Multikey",
               controller |-> did,
               publicKeyMultibase |-> publicKeyMultibase ] >>,
        authentication |-> << verificationMethodId >>,
        assertionMethod |-> << verificationMethodId >>,
        capabilityInvocation |-> << verificationMethodId >>,
        capabilityDelegation |-> << verificationMethodId >> ]

constructDidFromPublicKeyHex(publicKeyHex) ==
  LET compressedPublicKeyBytes == encodeCompressed(publicKeyHex)
      bufferToEncode == MULTICODEC_SECP256K1_PUB_HEADER \o compressedPublicKeyBytes
      publicKeyMultibase == <<"z">> \o toBase58(bufferToEncode)
      did == DID_KEY_PREFIX \o publicKeyMultibase
  IN  [ did |-> did, document |-> ConstructDocument(did, publicKeyMultibase) ]

\* ------------------------------------------------------------------------
\* resolveDidKey.  A result is a record: ok, the error message thrown (""
\* on success), detail (<<expected, actual>> for the length error), the
\* document (in a sequence of length 0 or 1), the checks that ran, in order,
\* the byte array the primitive returned (in a sequence of length 0 or 1) and
\* the error the primitive threw.

\* mutant: a failed call hands back what it had decoded so far
Throw_KeepsPartial(error, detail, steps, decoded, cause) ==
  [ ok |-> FALSE, error |-> error, detail |-> detail, document |-> decoded,
    steps |-> steps, decoded |-> decoded, cause |-> cause ]

Throw(error, detail, steps, decoded, cause) ==
  [ ok |-> FALSE, error |-> error, detail |-> detail, document |-> <<>>,
    steps |-> steps, decoded |-> decoded, cause |-> cause ]

Return(document, steps, decoded) ==
  [ ok |-> TRUE, error |-> "", detail |-> <<>>, document |-> <<document>>,
    steps |-> steps, decoded |-> decoded, cause |-> "" ]

\* mutant: the method name is compared without its closing colon
HasDidKeyPrefix_NoColon(did) == startsWith(did, SubSeq(DID_KEY_PREFIX, 1, 7))

HasDidKeyPrefix(did) == startsWith(did, DID_KEY_PREFIX)

\* mutant: the multibase tag is compared without regard to case
HasMultibaseTag_CaseInsensitive(publicKeyMultibase) ==
  startsWith(publicKeyMultibase, <<"z">>) \/ startsWith(publicKeyMultibase, <<"Z">>)

HasMultibaseTag(publicKeyMultibase) == startsWith(publicKeyMultibase, <<"z">>)

\* mutant: no try/catch, the primitive's error propagates
DecodeMultibase_Rethrow(publicKeyMultibase, rejectsEmpty) ==
  LET r == fromBase58(substring(publicKeyMultibase, 1), rejectsEmpty)
  IN  [ ok |-> r.ok, error |-> r.error, cause |-> r.error, bytes |-> r.bytes ]

\* try { fromBase58(publicKeyMultibase.substring(1)) } catch (e) { throw ... }
DecodeMultibase(publicKeyMultibase, rejectsEmpty) ==
  LET r == fromBase58(substring(publicKeyMultibase, 1), rejectsEmpty)
  IN  IF r.ok THEN [ ok |-> TRUE, error |-> "", cause |-> "", bytes |-> r.bytes ]
      ELSE [ ok |-> FALSE, error |-> MultibaseDecodeError, cause |-> r.error,
             bytes |-> <<>> ]

\* mutant: the comparison with the header starts at its second byte
HasCodecHeader_SkipFirst(decodedBytes) ==
  ~ ( Len(decodedBytes) < Len(MULTICODEC_SECP256K1_PUB_HEADER)
      \/ ~ \A index \in 2..Len(MULTICODEC_SECP256K1_PUB_HEADER) :
             MULTICODEC_SECP256K1_PUB_HEADER[index] = decodedBytes[index] )

HasCodecHeader(decodedBytes) ==
  ~ ( Len(decodedBytes) < Len(MULTICODEC_SECP256K1_PUB_HEADER)
      \/ ~ \A index \in 1..Len(MULTICODEC_SECP256K1_PUB_HEADER) :
             MULTICODEC_SECP256K1_PUB_HEADER[index] = decodedBytes[index] )

\* mutant: the header's two bytes are left out of the expected length
expectedDecodedLength_NoHeader == CompressedKeyLength

expectedDecodedLength == Len(MULTICODEC_SECP256K1_PUB_HEADER) + CompressedKeyLength

\* mutant: the marker 04 of an uncompressed key is let through
HasCompressionMarker_AllowsUncompressed(decodedBytes) ==
  LET pubKeyBytesOnly == substring(decodedBytes, Len(MULTICODEC_SECP256K1_PUB_HEADER))
  IN  ~ (pubKeyBytesOnly[1] # 2 /\ pubKeyBytesOnly[1] # 3 /\ pubKeyBytesOnly[1] # 4)

\* mutant: an x-coordinate of zero bytes only is refused with the marker
HasCompressionMarker_RejectsZeroX(decodedBytes) ==
  LET pubKeyBytesOnly == substring(decodedBytes, Len(MULTICODEC_SECP256K1_PUB_HEADER))
  IN  /\ ~ (pubKeyBytesOnly[1] # 2 /\ pubKeyBytesOnly[1] # 3)
      /\ \E index \in 2..Len(pubKeyBytesOnly) : pubKeyBytesOnly[index] # 0

HasCompressionMarker(decodedBytes) ==
  LET pubKeyBytesOnly == substring(decodedBytes, Len(MULTICODEC_SECP256K1_PUB_HEADER))
  IN  ~ (pubKeyBytesOnly[1] # 2 /\ pubKeyBytesOnly[1] # 3)

\* mutant: the length is checked before the codec header
ValidateDecoded_LengthFirst(decodedBytes) ==
  IF Len(decodedBytes) # expectedDecodedLength
  THEN [ error |-> InvalidFramedLength,
         detail |-> << expectedDecodedLength, Len(decodedBytes) >>,
         steps |-> <<"length">> ]
  ELSE IF ~ HasCodecHeader(decodedBytes)
  THEN [ error |-> UnsupportedKeyCodec, detail |-> <<>>, steps |-> <<"length", "codec">> ]
  ELSE IF ~ HasCompressionMarker(decodedBytes)
  THEN [ error |-> InvalidCompressionMarker, detail |-> <<>>,
         steps |-> <<"length", "codec", "marker">> ]
  ELSE [ error |-> "", detail |-> <<>>, steps |-> <<"length", "codec", "marker">> ]

\* The three checks on the decoded bytes, in the order the code runs them:
\* the error of the first that fails ("" when all pass) and the checks run.
ValidateDecoded(decodedBytes) ==
  IF ~ HasCodecHeader(decodedBytes)
  THEN [ error |-> UnsupportedKeyCodec, detail |-> <<>>, steps |-> <<"codec">> ]
  ELSE IF Len(decodedBytes) # expectedDecodedLength
  THEN [ error |-> InvalidFramedLength,
         detail |-> << expectedDecodedLength, Len(decodedBytes) >>,
         steps |-> <<"codec", "length">> ]
  ELSE IF ~ HasCompressionMarker(decodedBytes)
  THEN [ error |-> InvalidCompressionMarker, detail |-> <<>>,
         steps |-> <<"codec", "length", "marker">> ]
  ELSE [ error |-> "", detail |-> <<>>, steps |-> <<"codec", "length", "marker">> ]

\* mutant: the fragment is the base58 text without its multibase tag
ResolveDocument_BareFragment(did, publicKeyMultibase) ==
  LET verificationMethodId == did \o <<"#">> \o substring(publicKeyMultibase, 1)
  IN  [ context |-> << "https://www.w3.org/ns/did/v1",
                       "https://w3id.org/security/multikey/v1" >>,
        id |-> did,
        verificationMethod |->
          << [ id |-> verificationMethodId,
               type |-> "Multikey",
               controller |-> did,
               publicKeyMultibase |-> publicKeyMultibase ] >>,
        authentication |-> << verificationMethodId >>,
        assertionMethod |-> << verificationMethodId >>,
        capabilityInvocation |-> << verificationMethodId >>,
        capabilityDelegation |-> << verificationMethodId >> ]

\* mutant: publicKeyMultibase is the string handed to fromBase58, the tag cut off
ResolveDocument_StrippedMultibase(did, publicKeyMultibase) ==
  LET verificationMethodId == did \o <<"#">> \o publicKeyMultibase
  IN  [ context |-> << "https://www.w3.org/ns/did/v1",
                       "https://w3id.org/security/multikey/v1" >>,
        id |-> did,
        verificationMethod |->
          << [ id |-> verificationMethodId,
               type |-> "Multikey",
               controller |-> did,
               publicKeyMultibase |-> substring(publicKeyMultibase, 1) ] >>,
        authentication |-> << verificationMethodId >>,
        assertionMethod |-> << verificationMethodId >>,
        capabilityInvocation |-> << verificationMethodId >>,
        capabilityDelegation |-> << verificationMethodId >> ]

ResolveDocument(did, publicKeyMultibase) ==
  LET verificationMethodId == did \o <<"#">> \o publicKeyMultibase
  IN  [ context |-> << "https://www.w3.org/ns/did/v1",
                       "https://w3id.org/security/multikey/v1" >>,
        id |-> did,
        verificationMethod |->
          << [ id |-> verificationMethodId,
               type |-> "Multikey",
               controller |-> did,
               publicKeyMultibase |-> publicKeyMultibase ] >>,
        authentication |-> << verificationMethodId >>,
        assertionMethod |-> << verificationMethodId >>,
        capabilityInvocation |-> << verificationMethodId >>,
        capabilityDelegation |-> << verificationMethodId >> ]

resolveDidKey(did, rejectsEmpty) ==
  IF ~ HasDidKeyPrefix(did)
  THEN Throw(NotDidKeyMethod, <<>>, <<"prefix">>, <<>>, "")
  ELSE
    LET publicKeyMultibase == substring(did, Len(DID_KEY_PREFIX))
    IN  IF ~ HasMultibaseTag(publicKeyMultibase)
        THEN Throw(UnsupportedMultibasePrefix, <<>>, <<"prefix", "multibase">>, <<>>, "")
        ELSE
          LET dec == DecodeMultibase(publicKeyMultibase, rejectsEmpty)
          IN  IF ~ dec.ok
              THEN Throw(dec.error, <<>>, <<"prefix", "multibase", "decode">>,
                         <<>>, dec.cause)
              ELSE
                LET v == ValidateDecoded(dec.bytes)
                    steps == <<"prefix", "multibase", "decode">> \o v.steps
                IN  IF v.error # ""
                    THEN Throw(v.error, v.detail, steps, <<dec.bytes>>, "")
                    ELSE Return(ResolveDocument(did, publicKeyMultibase),
                                steps \o <<"build">>, <<dec.bytes>>)

\* ------------------------------------------------------------------------
\* The inputs the calls are checked on

Fill(n, f) == [i \in 1..n |-> (i * 7 * f) % Byte]

Fillers == 0..MaxFill

\* the patterns keys are made of: the pattern 0 gives an x of 32 zero bytes,
\* the x of no point of the curve, which no key has
KeyFillers == 1..MaxFill

\* compressed keys (marker ++ x) and uncompressed ones (04 ++ x ++ y, y of
\* either parity), as the hex strings construct is given
KeyBytes ==
  { <<m>> \o Fill(CompressedKeyLength - 1, f) : m \in {2, 3}, f \in KeyFillers }
  \cup { <<4>> \o Fill(CompressedKeyLength - 1, f)
              \o Fill(CompressedKeyLength - 2, f) \o <<p>> :
         p \in {8, 9}, f \in KeyFillers }

KeyInputs == { toHex(k) : k \in KeyBytes }

Ed25519Header == << 237, 1 >>

Headers == { MULTICODEC_SECP256K1_PUB_HEADER, Ed25519Header, << 231, 2 >> }

Markers == { 0, 2, 3, 4 }

KeyLengths == (CompressedKeyLength - MaxDelta)..(CompressedKeyLength + MaxDelta)

\* payloads of about the right length: header ++ marker ++ filler
FramedPayloads ==
  { h \o <<m>> \o Fill(n - 1, f) :
      h \in Headers, m \in Markers, n \in KeyLengths, f \in Fillers }

\* short payloads, a payload with a leading zero byte, and the tests' payload
\* of the header and 30 zero bytes
OddPayloads ==
  { << 231 >>, << 237 >>, << 0 >>, MULTICODEC_SECP256K1_PUB_HEADER, Ed25519Header,
    << 0 >> \o MULTICODEC_SECP256K1_PUB_HEADER \o <<2>> \o Fill(CompressedKeyLength - 2, 1),
    MULTICODEC_SECP256K1_PUB_HEADER \o Fill(CompressedKeyLength - 3, 0) }

Payloads == FramedPayloads \cup OddPayloads

GoodPayload ==
  MULTICODEC_SECP256K1_PUB_HEADER \o <<2>> \o Fill(CompressedKeyLength - 1, 1)

\* what may follow "did:key:"
Multibases ==
  { <<"z">> \o toBase58(p) : p \in Payloads }
  \cup { <<>>, <<"z">>, <<"a", "b", "c">>,
         << "z", "I", "n", "v", "a", "l", "i", "d", "K", "e", "y", "!" >>,
         <<"Z">> \o toBase58(GoodPayload),
         toBase58(GoodPayload),
         <<"z">> \o toBase58(GoodPayload) \o <<"0">>,
         <<" ", "z">> \o toBase58(GoodPayload) }

\* strings that do not start with "did:key:"
BadPrefixes ==
  { <<>>,
    << "d", "i", "d", ":", "k", "e", "y", "2", ":" >>,
    << " ", "d", "i", "d", ":", "k", "e", "y", ":" >>,
    << "D", "I", "D", ":", "K", "E", "Y", ":" >>,
    << "d", "i", "d", ":", "k", "e", "y" >> }

BadPrefixTails ==
  { <<>>, << "z", "A", "B", "C" >>, <<"z">> \o toBase58(GoodPayload), <<"a", "b", "c">> }

DidInputs ==
  { DID_KEY_PREFIX \o m : m \in Multibases }
  \cup { p \o t : p \in BadPrefixes, t \in BadPrefixTails }

\* ------------------------------------------------------------------------
\* Both methods are functions of their arguments (and of the build's base58
\* primitive) alone, so their results on the inputs are evaluated once and
\* looked up by the actions.

ConstructResults == { << hex, constructDidFromPublicKeyHex(hex) >> : hex \in KeyInputs }

ConstructCall(hex) == (CHOOSE e \in ConstructResults : e[1] = hex)[2]

ResolveInputs == DidInputs \cup { e[2].did : e \in ConstructResults }

ResolveResults ==
  { << d, r, resolveDidKey(d, r) >> : d \in ResolveInputs, r \in BOOLEAN }

ResolveCall(d, rejectsEmpty) ==
  (CHOOSE e \in ResolveResults : e[1] = d /\ e[2] = rejectsEmpty)[3]

\* the record of a handler call: the handler, its arguments (those it does
\* not take left empty), whether PushDrop.decode was invoked, how the call
\* ended, the error thrown ("" when it returned), and the collection as it
\* was when the call began
CallRecord(handler, txid, outputIndex, topic, script, mode, decoded, error, before) ==
  [ handler |-> handler, txid |-> txid, outputIndex |-> outputIndex,
    topic |-> topic, script |-> script, mode |-> mode, decoded |-> decoded,
    returned |-> error = "", error |-> error, before |-> before ]

NoCall == CallRecord("", "", 0, "", "", "", FALSE, "", <<>>)

\* the record of a query operation: the operation, what it was given, the
\* error thrown ("" when it returned), the answer (a sequence, holding the
\* certificate where one is returned), the calls made on the storage manager
\* and the queries made on the collection, in order, the number of verify()
\* calls, and the collection as it was when the operation began
QueryRecord(op, input, error, answer, storageCalls, dbQueries, verifyCalls, before) ==
  [ op |-> op, input |-> input, returned |-> error = "", error |-> error,
    answer |-> answer, storageCalls |-> storageCalls, dbQueries |-> dbQueries,
    verifyCalls |-> verifyCalls, before |-> before ]

NoQuery == QueryRecord("", <<>>, "", <<>>, <<>>, <<>>, 0, <<>>)

\* no did was resolved yet
NoCanon == [ did |-> <<>>, accepted |-> FALSE, embedded |-> <<>>, outcome |-> <<>> ]

\* ------------------------------------------------------------------------
\* State: the service keeps none.  The variables hold the build's base58
\* primitive and, for the latest call of each method, its argument and what
\* the returned promise settled to (a sequence of length 0 before any call).

VARIABLES fromBase58RejectsEmpty, lastPublicKeyHex, constructed, lastDid, resolved

\* For calls that overlap: the module-level header array, which every call
\* reads, and the calls started so far, in the order they were started, each
\* with what its promise holds and whether the caller has received it.
VARIABLES sharedHeader, calls

callVars == << sharedHeader, calls >>

\* The lookup service: the documents of the identityRecords collection, in
\* insertion order, and the latest handler call with how it ended.
VARIABLES records, lastCall

lookupVars == << records, lastCall >>

\* Queries of the collection: the latest operation of the lookup service or
\* of the storage manager, with the calls it made and how it ended.
VARIABLES lastQuery

\* A did handed to resolveDidKey and, where it was accepted, what
\* constructDidFromPublicKeyHex made of the key it embeds.
VARIABLES canon

\* Handler executions that are under way, each at one of its awaits.
VARIABLES handlers

moreVars == << lastQuery, canon, handlers >>

didVars == << fromBase58RejectsEmpty, lastPublicKeyHex, constructed, lastDid, resolved >>

vars ==
  << fromBase58RejectsEmpty, lastPublicKeyHex, constructed, lastDid, resolved,
     callVars, lookupVars, moreVars >>

Init ==
  /\ fromBase58RejectsEmpty \in BOOLEAN
  /\ lastPublicKeyHex = <<>>
  /\ constructed = <<>>
  /\ lastDid = <<>>
  /\ resolved = <<>>
  /\ sharedHeader = MULTICODEC_SECP256K1_PUB_HEADER
  /\ calls = <<>>
  /\ records = <<>>
  /\ lastCall = NoCall
  /\ lastQuery = NoQuery
  /\ canon = NoCanon
  /\ handlers = <<>>

Construct ==
  \E hex \in KeyInputs :
    /\ lastPublicKeyHex' = hex
    /\ constructed' = << ConstructCall(hex) >>
    /\ UNCHANGED << fromBase58RejectsEmpty, lastDid, resolved, callVars, lookupVars, moreVars >>

Resolve ==
  \E d \in DidInputs :
    /\ lastDid' = d
    /\ resolved' = << ResolveCall(d, fromBase58RejectsEmpty) >>
    /\ UNCHANGED << fromBase58RejectsEmpty, lastPublicKeyHex, constructed, callVars, lookupVars, moreVars >>

\* resolveDidKey on the did a construct call returned
ResolveConstructed ==
  /\ constructed # <<>>
  /\ lastDid' = constructed[1].did
  /\ resolved' = << ResolveCall(constructed[1].did, fromBase58RejectsEmpty) >>
  /\ UNCHANGED << fromBase58RejectsEmpty, lastPublicKeyHex, constructed, callVars, lookupVars, moreVars >>

Next == Construct \/ Resolve \/ ResolveConstructed

Spec == Init /\ [][Next]_vars

\* ------------------------------------------------------------------------
\* Properties

Called == resolved # <<>>

Result == resolved[1]

\* the byte array the base58 primitive returned to the latest resolveDidKey call
Decoded == Result.decoded[1]

HasDecoded == Called /\ Result.decoded # <<>>

DidKeyZ == << "d", "i", "d", ":", "k", "e", "y", ":", "z" >>

\* C1: round trip.  For a key k, resolveDidKey(constructDidFromPublicKeyHex(k).did)
\* succeeds and returns a document equal in every field, role arrays included,
\* to the document construct returned.
C1_RoundTrip ==
  (constructed # <<>> /\ Called /\ lastDid = constructed[1].did)
    => /\ Result.ok
       /\ Result.document = << constructed[1].document >>

\* a compressed 03-key was constructed and its did resolved
C1_Witness ==
  /\ constructed # <<>>
  /\ Called
  /\ lastDid = constructed[1].did
  /\ lastPublicKeyHex[1] = "0" /\ lastPublicKeyHex[2] = "3"
  /\ Len(lastPublicKeyHex) = 2 * CompressedKeyLength
  /\ Result.ok

\* C2 as claimed: the length check comes first.  Every decoded payload whose
\* length is not 35 fails with InvalidFramedLength, and UnsupportedKeyCodec is
\* reported only for payloads of exactly 35 bytes.
C2_LengthCheckedFirst ==
  HasDecoded
    => /\ (Len(Decoded) # 35 => Result.error = InvalidFramedLength)
       /\ (Result.error = UnsupportedKeyCodec => Len(Decoded) = 35)

\* C2 as amended: the checks run in the order codec header, length, marker,
\* stopping at the first failure.  Every decoded payload shorter than 2 bytes
\* or not starting with E7 01 fails with UnsupportedKeyCodec whatever its
\* length, without the length or marker check running; InvalidFramedLength is
\* reported only for payloads that start with E7 01 and are not 35 bytes long,
\* and the marker check runs only on 35-byte payloads that start with E7 01.
C2_CodecCheckedFirst ==
  HasDecoded
    => LET header == Len(Decoded) >= 2 /\ Decoded[1] = 231 /\ Decoded[2] = 1
           checks == SubSeq(Result.steps, 4, Len(Result.steps))
       IN  /\ SubSeq(Result.steps, 1, 3) = << "prefix", "multibase", "decode" >>
           /\ ~ header => /\ Result.error = UnsupportedKeyCodec
                          /\ checks = << "codec" >>
           /\ (header /\ Len(Decoded) # 35)
                => /\ Result.error = InvalidFramedLength
                   /\ checks = << "codec", "length" >>
           /\ Result.error = InvalidFramedLength => (header /\ Len(Decoded) # 35)
           /\ (\E i \in 1..Len(checks) : checks[i] = "marker")
                => (header /\ Len(Decoded) = 35)

\* a payload that is not 35 bytes long and does not start with E7 01 was
\* rejected for its codec
C2_Witness ==
  /\ HasDecoded
  /\ Len(Decoded) = 36
  /\ Decoded[1] = 231 /\ Decoded[2] = 2
  /\ Result.error = UnsupportedKeyCodec

\* C3: a decoded payload that begins with the Ed25519 header ED 01 fails with
\* UnsupportedKeyCodec, whether it is 35 bytes long or has the 34 bytes of a
\* real Ed25519 did:key.
C3_Ed25519Rejected ==
  (HasDecoded /\ Len(Decoded) >= 2 /\ Decoded[1] = 237 /\ Decoded[2] = 1)
    => /\ ~ Result.ok
       /\ Result.error = UnsupportedKeyCodec

\* the 34 bytes of an Ed25519 key were rejected
C3_Witness ==
  /\ HasDecoded
  /\ Len(Decoded) = 34
  /\ Decoded[1] = 237 /\ Decoded[2] = 1
  /\ Result.error = UnsupportedKeyCodec

\* C4: a decoded payload that starts with E7 01 and is not 35 bytes long fails
\* with InvalidFramedLength, and the error carries the expected length 35 and
\* the actual decoded length.
C4_LengthBoundary ==
  (HasDecoded /\ Len(Decoded) >= 2 /\ Decoded[1] = 231 /\ Decoded[2] = 1
     /\ Len(Decoded) # 35)
    => /\ ~ Result.ok
       /\ Result.error = InvalidFramedLength
       /\ Result.detail = << 35, Len(Decoded) >>

\* a payload one byte long was rejected for its length
C4_Witness ==
  /\ HasDecoded
  /\ Len(Decoded) = 36
  /\ Decoded[1] = 231 /\ Decoded[2] = 1
  /\ Result.error = InvalidFramedLength
  /\ Result.detail = << 35, 36 >>

\* C5: a 35-byte payload with header E7 01 whose third byte is neither 02 nor
\* 03 fails with InvalidCompressionMarker and no document is returned.
C5_CompressionMarker ==
  (HasDecoded /\ Len(Decoded) = 35 /\ Decoded[1] = 231 /\ Decoded[2] = 1
     /\ Decoded[3] \notin {2, 3})
    => /\ ~ Result.ok
       /\ Result.error = InvalidCompressionMarker
       /\ Result.document = <<>>

\* the marker 04 of an uncompressed key was rejected
C5_Witness ==
  /\ HasDecoded
  /\ Len(Decoded) = 35
  /\ Decoded[1] = 231 /\ Decoded[2] = 1 /\ Decoded[3] = 4
  /\ Result.error = InvalidCompressionMarker

\* C6: every input that does not start with "did:key:" fails with
\* NotDidKeyMethod whatever follows; no later check runs.
C6_PrefixFirst ==
  (Called /\ ~ (Len(lastDid) >= 8 /\ SubSeq(lastDid, 1, 8) = SubSeq(DidKeyZ, 1, 8)))
    => /\ ~ Result.ok
       /\ Result.error = NotDidKeyMethod
       /\ Result.steps = << "prefix" >>
       /\ Result.decoded = <<>>

\* "did:key2:zABC" was rejected for its method
C6_Witness ==
  /\ Called
  /\ lastDid = << "d", "i", "d", ":", "k", "e", "y", "2", ":", "z", "A", "B", "C" >>
  /\ Result.error = NotDidKeyMethod

\* C7: every input that starts with "did:key:" and whose suffix does not start
\* with 'z' fails with UnsupportedMultibasePrefix, and the base58 decode
\* primitive is never invoked.
C7_TagBeforeDecode ==
  (Called /\ Len(lastDid) >= 8 /\ SubSeq(lastDid, 1, 8) = SubSeq(DidKeyZ, 1, 8)
     /\ (Len(lastDid) = 8 \/ lastDid[9] # "z"))
    => /\ ~ Result.ok
       /\ Result.error = UnsupportedMultibasePrefix
       /\ Result.steps = << "prefix", "multibase" >>
       /\ Result.decoded = <<>>
       /\ Result.cause = ""

\* "did:key:abc" was rejected for its multibase tag
C7_Witness ==
  /\ Called
  /\ lastDid = << "d", "i", "d", ":", "k", "e", "y", ":", "a", "b", "c" >>
  /\ Result.error = UnsupportedMultibasePrefix

\* C8: whenever the base58 primitive fails on the substring after "did:key:z",
\* resolve fails with MultibaseDecodeError, not with the primitive's own error,
\* and none of the codec, length and marker checks runs.
C8_DecodeFailureWrapped ==
  (Called /\ Len(lastDid) >= 9 /\ SubSeq(lastDid, 1, 9) = DidKeyZ
     /\ ~ fromBase58(SubSeq(lastDid, 10, Len(lastDid)), fromBase58RejectsEmpty).ok)
    => /\ ~ Result.ok
       /\ Result.error = MultibaseDecodeError
       /\ Result.error # Base58Error
       /\ Result.steps = << "prefix", "multibase", "decode" >>

\* "did:key:zInvalidKey!" was rejected as undecodable
C8_Witness ==
  /\ Called
  /\ lastDid = DidKeyZ \o << "I", "n", "v", "a", "l", "i", "d", "K", "e", "y", "!" >>
  /\ Result.error = MultibaseDecodeError
  /\ Result.cause = Base58Error

\* C9 as claimed: "did:key:z" fails with MultibaseDecodeError whether the
\* primitive rejects the empty string or returns an empty byte array for it.
C9_EmptyPayloadIsDecodeError ==
  (Called /\ lastDid = DidKeyZ) => Result.error = MultibaseDecodeError

\* C9 as amended: "did:key:z" always fails and never with InvalidFramedLength:
\* with MultibaseDecodeError when the primitive rejects the empty string, with
\* UnsupportedKeyCodec when the primitive returns an empty byte array for it.
C9_EmptyPayloadByPrimitive ==
  (Called /\ lastDid = DidKeyZ)
    => /\ ~ Result.ok
       /\ fromBase58RejectsEmpty => Result.error = MultibaseDecodeError
       /\ ~ fromBase58RejectsEmpty
            => (Result.error = UnsupportedKeyCodec /\ Result.decoded = << <<>> >>)

\* "did:key:z" was resolved on a build whose primitive returns the empty array
C9_Witness ==
  /\ Called
  /\ lastDid = DidKeyZ
  /\ ~ fromBase58RejectsEmpty
  /\ Result.error = UnsupportedKeyCodec

\* C10: no normalization.  Whenever resolve succeeds, the document's id and
\* the verification method's controller are the did as passed in,
\* publicKeyMultibase is the substring of the did after "did:key:", and
\* verificationMethod[0].id is did + '#' + that substring.
C10_NoNormalization ==
  (Called /\ Result.ok)
    => LET document == Result.document[1]
           multibase == SubSeq(lastDid, 9, Len(lastDid))
       IN  /\ document.id = lastDid
           /\ Len(document.verificationMethod) = 1
           /\ document.verificationMethod[1].controller = lastDid
           /\ document.verificationMethod[1].publicKeyMultibase = multibase
           /\ document.verificationMethod[1].id = lastDid \o <<"#">> \o multibase

\* a did given by the caller (not one construct returned) resolved
C10_Witness ==
  /\ Called
  /\ constructed = <<>>
  /\ Result.ok
  /\ Decoded[3] = 3

\* The shape every DID Document of the service has, for the did it belongs to.
IsDidKeyDocument(d, doc) ==
  /\ DOMAIN doc = { "context", "id", "verificationMethod", "authentication",
                    "assertionMethod", "capabilityInvocation",
                    "capabilityDelegation" }
  /\ doc.context = << "https://www.w3.org/ns/did/v1",
                      "https://w3id.org/security/multikey/v1" >>
  /\ Len(doc.verificationMethod) = 1
  /\ LET vm == doc.verificationMethod[1]
     IN  /\ vm.type = "Multikey"
         /\ vm.controller = d
         /\ vm.id = d \o <<"#">> \o vm.publicKeyMultibase
         /\ doc.authentication = << vm.id >>
         /\ doc.assertionMethod = << vm.id >>
         /\ doc.capabilityInvocation = << vm.id >>
         /\ doc.capabilityDelegation = << vm.id >>

\* C12: every document construct or resolve returns has '@context' equal to
\* the two fixed URIs in order, exactly one verification method, of type
\* 'Multikey', with controller = did and id = did + '#' + publicKeyMultibase,
\* and each of authentication, assertionMethod, capabilityInvocation and
\* capabilityDelegation is the one-element array [verificationMethod[0].id].
C12_DocumentShape ==
  /\ constructed # <<>>
       => IsDidKeyDocument(constructed[1].did, constructed[1].document)
  /\ (Called /\ Result.ok) => IsDidKeyDocument(lastDid, Result.document[1])

\* construct returned a document for one key and resolve one for another key
C12_Witness ==
  /\ constructed # <<>>
  /\ Called
  /\ Result.ok
  /\ lastDid # constructed[1].did
  /\ Result.document[1].id # constructed[1].document.id

\* what the base58 primitive makes of the text after "did:key:z", for the
\* inputs that start with "did:key:z"
DecodeResults ==
  { << d, r, fromBase58(SubSeq(d, 10, Len(d)), r) >> :
      d \in { i \in ResolveInputs : startsWith(i, DidKeyZ) }, r \in BOOLEAN }

DecodeCall(d, rejectsEmpty) ==
  (CHOOSE e \in DecodeResults : e[1] = d /\ e[2] = rejectsEmpty)[3]

\* the inputs C14 lets through
Accepted(d, rejectsEmpty) ==
  /\ startsWith(d, DidKeyZ)
  /\ LET dec == DecodeCall(d, rejectsEmpty)
     IN  /\ dec.ok
         /\ Len(dec.bytes) = 35
         /\ dec.bytes[1] = 231 /\ dec.bytes[2] = 1
         /\ dec.bytes[3] \in {2, 3}

ErrorKinds ==
  { NotDidKeyMethod, UnsupportedMultibasePrefix, MultibaseDecodeError,
    UnsupportedKeyCodec, InvalidFramedLength, InvalidCompressionMarker }

\* C14: fail closed.  resolve returns a document only if its input starts with
\* "did:key:z", the rest base58-decodes without error to exactly 35 bytes, the
\* first two bytes are E7 01 and the third is 02 or 03; every other input ends
\* in exactly one of the six error kinds, with no document or partial result.
C14_FailClosed ==
  Called
    => /\ Result.ok <=> Accepted(lastDid, fromBase58RejectsEmpty)
       /\ Result.ok => (Result.error = "" /\ Len(Result.document) = 1)
       /\ ~ Result.ok => (Result.error \in ErrorKinds /\ Result.document = <<>>)

\* a payload that decoded, but with the marker 04, ended in an error and
\* without a document
C14_Witness ==
  /\ HasDecoded
  /\ ~ Accepted(lastDid, fromBase58RejectsEmpty)
  /\ Len(Decoded) = 35 /\ Decoded[3] = 4
  /\ ~ Result.ok
  /\ Result.document = <<>>

\* x-coordinates resolve is given: the filler patterns, the first of which is
\* 32 zero bytes, which is the x of no point of the curve
XCoordinates == { Fill(CompressedKeyLength - 1, f) : f \in Fillers }

ZeroX == Fill(CompressedKeyLength - 1, 0)

\* 'did:key:z' + base58(E7 01 ++ m ++ x)
DidOfKey(m, x) == DidKeyZ \o toBase58(MULTICODEC_SECP256K1_PUB_HEADER \o <<m>> \o x)

CompressedKeyDids == { DidOfKey(m, x) : m \in {2, 3}, x \in XCoordinates }

ZeroKeyDid == DidOfKey(2, ZeroX)

\* C15: no curve validation.  Every did 'did:key:z' + base58(E7 01 ++ m ++ x)
\* with m 02 or 03 and x any 32 bytes, all zeros included, is accepted by
\* resolve and yields a document; the x bytes do not decide success.
C15_NoCurveValidation ==
  (Called /\ lastDid \in CompressedKeyDids)
    => /\ Result.ok
       /\ Len(Result.document) = 1
       /\ Result.document[1].id = lastDid

\* the did of the key 02 ++ 32 zero bytes resolved to a document
C15_Witness ==
  /\ Called
  /\ lastDid = ZeroKeyDid
  /\ Decoded = MULTICODEC_SECP256K1_PUB_HEADER \o <<2>> \o ZeroX
  /\ Result.ok

\* ------------------------------------------------------------------------
\* Overlapping calls.  Both methods are async functions without an await:
\* the whole body runs when the method is called, reading the module-level
\* header array, and leaves a settled promise whose value the caller receives
\* later, in any order relative to other calls.

\* calls started in one run
MaxCalls == 3

\* what PublicKey.fromString throws for bytes in none of the point formats
UnknownPointFormat == "Unknown point format"

\* compressed (02 | 03 ++ x) or uncompressed (04 ++ x ++ y)
IsPointFormat(raw) ==
  \/ (Len(raw) = CompressedKeyLength /\ raw[1] \in {2, 3})
  \/ (Len(raw) = 2 * CompressedKeyLength - 1 /\ raw[1] = 4)

\* what PublicKey.fromString throws for an x that is on no point of the curve
InvalidPoint == "Invalid point"

\* whether the parser finds a point for the x of a key: it finds none for
\* 32 zero bytes; the other x patterns of the inputs stand for the x of points
IsCurvePoint(raw) ==
  SubSeq(raw, 2, CompressedKeyLength) # Fill(CompressedKeyLength - 1, 0)

\* PublicKey.fromString(publicKeyHex): the parser's verdict on the hex text
fromString(publicKeyHex) ==
  IF ~ IsPointFormat(toArray(publicKeyHex))
  THEN [ ok |-> FALSE, error |-> UnknownPointFormat ]
  ELSE IF ~ IsCurvePoint(toArray(publicKeyHex))
  THEN [ ok |-> FALSE, error |-> InvalidPoint ]
  ELSE [ ok |-> TRUE, error |-> "" ]

\* the body of constructDidFromPublicKeyHex, run with headerBytes as the
\* contents of the header array.  It has no check of its own: an error is the
\* parser's.
constructBody(headerBytes, publicKeyHex) ==
  LET publicKeyInstance == fromString(publicKeyHex)
  IN  IF ~ publicKeyInstance.ok
      THEN [ ok |-> FALSE, error |-> publicKeyInstance.error,
             did |-> <<>>, document |-> <<>> ]
      ELSE
        LET compressedPublicKeyBytes == encodeCompressed(publicKeyHex)
            bufferToEncode == headerBytes \o compressedPublicKeyBytes
            publicKeyMultibase == <<"z">> \o toBase58(bufferToEncode)
            did == DID_KEY_PREFIX \o publicKeyMultibase
        IN  [ ok |-> TRUE, error |-> "", did |-> did,
              document |-> << ConstructDocument(did, publicKeyMultibase) >> ]

\* the three checks of resolveDidKey on the decoded bytes, against headerBytes
validateBody(headerBytes, decodedBytes) ==
  IF Len(decodedBytes) < 2
     \/ decodedBytes[1] # headerBytes[1] \/ decodedBytes[2] # headerBytes[2]
  THEN [ error |-> UnsupportedKeyCodec, detail |-> <<>>, steps |-> <<"codec">> ]
  ELSE IF Len(decodedBytes) # Len(headerBytes) + CompressedKeyLength
  THEN [ error |-> InvalidFramedLength,
         detail |-> << Len(headerBytes) + CompressedKeyLength, Len(decodedBytes) >>,
         steps |-> <<"codec", "length">> ]
  ELSE IF ~ (substring(decodedBytes, Len(headerBytes))[1] \in {2, 3})
  THEN [ error |-> InvalidCompressionMarker, detail |-> <<>>,
         steps |-> <<"codec", "length", "marker">> ]
  ELSE [ error |-> "", detail |-> <<>>, steps |-> <<"codec", "length", "marker">> ]

\* the body of resolveDidKey, run with headerBytes as the contents of the
\* header array
resolveBody(headerBytes, did, rejectsEmpty) ==
  IF ~ HasDidKeyPrefix(did)
  THEN Throw(NotDidKeyMethod, <<>>, <<"prefix">>, <<>>, "")
  ELSE
    LET publicKeyMultibase == substring(did, Len(DID_KEY_PREFIX))
    IN  IF ~ HasMultibaseTag(publicKeyMultibase)
        THEN Throw(UnsupportedMultibasePrefix, <<>>, <<"prefix", "multibase">>, <<>>, "")
        ELSE
          LET dec == DecodeMultibase(publicKeyMultibase, rejectsEmpty)
          IN  IF ~ dec.ok
              THEN Throw(dec.error, <<>>, <<"prefix", "multibase", "decode">>,
                         <<>>, dec.cause)
              ELSE
                LET v == validateBody(headerBytes, dec.bytes)
                    steps == <<"prefix", "multibase", "decode">> \o v.steps
                IN  IF v.error # ""
                    THEN Throw(v.error, v.detail, steps, <<dec.bytes>>, "")
                    ELSE Return(ResolveDocument(did, publicKeyMultibase),
                                steps \o <<"build">>, <<dec.bytes>>)

\* The keys and dids of the overlapping calls: a compressed key, an
\* uncompressed one, keys of 32 and of 34 bytes; the did of the compressed
\* key, a did without payload, one with a wrong tag, one of an Ed25519 key.
GoodKey == <<2>> \o Fill(CompressedKeyLength - 1, 1)

CallKeys ==
  { toHex(GoodKey),
    toHex(<<4>> \o Fill(CompressedKeyLength - 1, 1)
              \o Fill(CompressedKeyLength - 2, 1) \o <<9>>),
    toHex(<<2>> \o Fill(CompressedKeyLength - 2, 1)),
    toHex(<<3>> \o Fill(CompressedKeyLength, 1)) }

CallDids ==
  { DidKeyZ \o toBase58(MULTICODEC_SECP256K1_PUB_HEADER \o GoodKey),
    DidKeyZ,
    DID_KEY_PREFIX \o <<"a", "b", "c">>,
    DidKeyZ \o toBase58(Ed25519Header \o GoodKey) }

\* the contents the header array is evaluated with: the bytes it is created
\* with, and other bytes, to tell what a call returns once they were written
OverwrittenHeader == << 231, 2 >>

HeaderValues == { MULTICODEC_SECP256K1_PUB_HEADER, OverwrittenHeader }

ConstructBodies ==
  { << h, hex, constructBody(h, hex) >> : h \in HeaderValues, hex \in CallKeys }

ResolveBodies ==
  { << h, d, r, resolveBody(h, d, r) >> :
      h \in HeaderValues, d \in CallDids, r \in BOOLEAN }

ConstructBodyCall(headerBytes, hex) ==
  (CHOOSE e \in ConstructBodies : e[1] = headerBytes /\ e[2] = hex)[3]

ResolveBodyCall(headerBytes, d, rejectsEmpty) ==
  (CHOOSE e \in ResolveBodies :
     e[1] = headerBytes /\ e[2] = d /\ e[3] = rejectsEmpty)[4]

\* mutant: the call frames the key inside the shared array, leaving the
\* header overwritten
CallConstruct_WritesHeader ==
  \E hex \in CallKeys :
    /\ Len(calls) < MaxCalls
    /\ calls' = Append(calls, [ op |-> "construct", input |-> hex,
                                outcome |-> ConstructBodyCall(sharedHeader, hex),
                                received |-> FALSE ])
    /\ sharedHeader' = OverwrittenHeader
    /\ UNCHANGED << fromBase58RejectsEmpty, lastPublicKeyHex, constructed,
                    lastDid, resolved, lookupVars, moreVars >>

\* constructDidFromPublicKeyHex is called: the body runs to its end
CallConstruct ==
  \E hex \in CallKeys :
    /\ Len(calls) < MaxCalls
    /\ calls' = Append(calls, [ op |-> "construct", input |-> hex,
                                outcome |-> ConstructBodyCall(sharedHeader, hex),
                                received |-> FALSE ])
    /\ UNCHANGED << sharedHeader, fromBase58RejectsEmpty, lastPublicKeyHex,
                    constructed, lastDid, resolved, lookupVars, moreVars >>

\* resolveDidKey is called: the body runs to its end
CallResolve ==
  \E d \in CallDids :
    /\ Len(calls) < MaxCalls
    /\ calls' = Append(calls, [ op |-> "resolve", input |-> d,
                                outcome |->
                                  ResolveBodyCall(sharedHeader, d, fromBase58RejectsEmpty),
                                received |-> FALSE ])
    /\ UNCHANGED << sharedHeader, fromBase58RejectsEmpty, lastPublicKeyHex,
                    constructed, lastDid, resolved, lookupVars, moreVars >>

\* mutant: the caller is handed what the call started just before its own
\* left behind
Receive_Previous ==
  \E n \in 1..Len(calls) :
    /\ ~ calls[n].received
    /\ calls' = [calls EXCEPT ![n].received = TRUE,
                              ![n].outcome =
                                 IF n > 1 /\ calls[n - 1].op = calls[n].op
                                 THEN calls[n - 1].outcome ELSE @]
    /\ UNCHANGED << sharedHeader, fromBase58RejectsEmpty, lastPublicKeyHex,
                    constructed, lastDid, resolved, lookupVars, moreVars >>

\* a caller's await receives the value of its promise
Receive ==
  \E n \in 1..Len(calls) :
    /\ ~ calls[n].received
    /\ calls' = [calls EXCEPT ![n].received = TRUE]
    /\ UNCHANGED << sharedHeader, fromBase58RejectsEmpty, lastPublicKeyHex,
                    constructed, lastDid, resolved, lookupVars, moreVars >>

NextCalls == CallConstruct \/ CallResolve \/ Receive

SpecCalls == Init /\ [][NextCalls]_vars

InvalidKeyLength == "InvalidKeyLength"

\* C13: whenever the key bytes construct is to frame are not exactly 33 bytes
\* long it signals InvalidKeyLength and returns no did or document, and no did
\* it returns has a payload that is not 35 bytes long.
C13_InvalidKeyLength ==
  \A n \in 1..Len(calls) :
    calls[n].op = "construct"
      => LET raw == toArray(calls[n].input)
             compressedForm == raw[1] \in {2, 3}
         IN  /\ (compressedForm /\ Len(raw) # CompressedKeyLength)
                  => /\ ~ calls[n].outcome.ok
                     /\ calls[n].outcome.error = InvalidKeyLength
                     /\ calls[n].outcome.did = <<>>
                     /\ calls[n].outcome.document = <<>>
             /\ calls[n].outcome.ok
                  => Len(fromBase58(SubSeq(calls[n].outcome.did, 10,
                                           Len(calls[n].outcome.did)),
                                    fromBase58RejectsEmpty).bytes) = 35

\* what a call returns when it is the only call made
AloneOutcome(c) ==
  IF c.op = "construct"
  THEN ConstructBodyCall(MULTICODEC_SECP256K1_PUB_HEADER, c.input)
  ELSE ResolveBodyCall(MULTICODEC_SECP256K1_PUB_HEADER, c.input, fromBase58RejectsEmpty)

embeddedKey(decodedBytes) ==
  SubSeq(decodedBytes, Len(MULTICODEC_SECP256K1_PUB_HEADER) + 1, Len(decodedBytes))

\* the dids resolveDidKey accepts, each with the key it embeds and what
\* constructDidFromPublicKeyHex makes of that key
CanonResults ==
  { << e[1], e[2], embeddedKey(e[3].decoded[1]),
       constructBody(MULTICODEC_SECP256K1_PUB_HEADER, toHex(embeddedKey(e[3].decoded[1]))) >> :
      e \in { a \in ResolveResults : a[3].ok } }

ConstructEmbeddedCall(d, rejectsEmpty) ==
  (CHOOSE e \in CanonResults : e[1] = d /\ e[2] = rejectsEmpty)[4]

\* resolveDidKey is called on a did
ResolveDid ==
  \E d \in ResolveInputs :
    LET r == ResolveCall(d, fromBase58RejectsEmpty)
    IN  /\ canon' = [ did |-> d, accepted |-> r.ok,
                      embedded |-> IF r.ok THEN embeddedKey(r.decoded[1]) ELSE <<>>,
                      outcome |-> <<>> ]
        /\ UNCHANGED << didVars, callVars, lookupVars, lastQuery, handlers >>

\* constructDidFromPublicKeyHex is called on the key of the accepted did
ConstructEmbedded ==
  /\ canon.accepted
  /\ canon.outcome = <<>>
  /\ canon' = [canon EXCEPT
                 !.outcome = << ConstructEmbeddedCall(canon.did, fromBase58RejectsEmpty) >>]
  /\ UNCHANGED << didVars, callVars, lookupVars, lastQuery, handlers >>

NextCanon == ResolveDid \/ ConstructEmbedded

SpecCanon == Init /\ [][NextCanon]_vars

\* the accepted dids, with their keys
AcceptedDids == { << e[1], e[3] >> : e \in CanonResults }

MaxRecords == 2

TopicIdentity == "tm_identity"

NoPubliclyRevealedAttributes == "No publicly revealed attributes present!"
InvalidPayload == "Invalid payload"

\* what PushDrop.decode or JSON.parse throws for a script that holds no
\* certificate, and decryptFields when the keyring cannot be used
ScriptError == "script holds no certificate"
DecryptError == "fields could not be decrypted"

RECURSIVE join(_, _)
join(values, separator) ==
  IF values = <<>> THEN <<>>
  ELSE IF Len(values) = 1 THEN values[1]
  ELSE values[1] \o separator \o join(Tail(values), separator)

\* String.prototype.includes
includes(text, part) ==
  \E at \in 0..(Len(text) - Len(part)) : SubSeq(text, at + 1, at + Len(part)) = part

\* mutant: the photo and icon fields are indexed like the others
searchableAttributes_All(fields) ==
  join([n \in 1..Len(fields) |-> fields[n].value], <<" ">>)

\* Object.entries(certificate.fields).filter(...).map(...).join(' ')
searchableAttributes(fields) ==
  LET kept == SelectSeq(fields, LAMBDA entry :
                          entry.key # "profilePhoto" /\ entry.key # "icon")
  IN  join([n \in 1..Len(kept) |-> kept[n].value], <<" ">>)

\* storeRecord: records.insertOne(...)
storeRecord(store, txid, outputIndex, certificate) ==
  Append(store, [ txid |-> txid, outputIndex |-> outputIndex,
                  certificate |-> certificate, createdAt |-> "Date",
                  searchableAttributes |-> searchableAttributes(certificate.fields) ])

\* the positions of the documents a filter { txid, outputIndex } matches
matching(store, txid, outputIndex) ==
  { n \in 1..Len(store) : store[n].txid = txid /\ store[n].outputIndex = outputIndex }

removeAt(store, n) == SubSeq(store, 1, n - 1) \o SubSeq(store, n + 1, Len(store))

\* deleteRecord: records.deleteOne({ txid, outputIndex }) removes one of the
\* matching documents, if there is any; the result is the set of collections
\* the call can leave
deleteRecord(store, txid, outputIndex) ==
  IF matching(store, txid, outputIndex) = {} THEN { store }
  ELSE { removeAt(store, n) : n \in matching(store, txid, outputIndex) }

\* w3cTypes of outputAdded.  A type is [isString, names]: a string is held as
\* the one element of names.
w3cTypes(type) ==
  IF type.isString /\ type.names[1] \notin {"", " "}
  THEN << "VerifiableCredential", type.names[1] >>
  ELSE IF ~ type.isString /\ Len(type.names) > 0
  THEN type.names
  ELSE << "VerifiableCredential" >>

\* Output scripts, by what the SDK makes of them: whether PushDrop.decode and
\* JSON.parse yield a certificate, the certificate, whether decryptFields with
\* the 'anyone' wallet succeeds, and the fields it reveals.
Certificate(type, serialNumber, fields) ==
  [ type |-> type, serialNumber |-> serialNumber, subject |-> "testSubject",
    certifier |-> "testCertifier", revocationOutpoint |-> "testRevOutpoint",
    fields |-> fields, keyring |-> << [ key |-> "key", value |-> <<"k">> ] >> ]

Entry(key, value) == [ key |-> key, value |-> value ]

Scripts ==
  [ plain |-> [ decodes |-> TRUE, decrypts |-> TRUE,
                parsedCert |-> Certificate([ isString |-> TRUE, names |-> <<"testType">> ],
                                           "serial1",
                                           << Entry("dataField", <<"#", "1">>) >>),
                decryptedFields |-> << Entry("attribute1", <<"d", "v">>),
                                       Entry("attribute2", <<"a", "v">>) >> ],
    photo |-> [ decodes |-> TRUE, decrypts |-> TRUE,
                parsedCert |-> Certificate([ isString |-> FALSE,
                                             names |-> << "VerifiableCredential",
                                                          "BRC52IdentityCertificate" >> ],
                                           "serial2",
                                           << Entry("profilePhoto", <<"#", "2">>),
                                              Entry("name", <<"#", "3">>) >>),
                decryptedFields |-> << Entry("profilePhoto", <<"u", "h">>),
                                       Entry("name", <<"B", "o">>) >> ],
    empty |-> [ decodes |-> TRUE, decrypts |-> TRUE,
                parsedCert |-> Certificate([ isString |-> TRUE, names |-> <<"testTypeEmpty">> ],
                                           "serial4",
                                           << Entry("dataField", <<"#", "5">>) >>),
                decryptedFields |-> <<>> ],
    sealed |-> [ decodes |-> TRUE, decrypts |-> FALSE,
                 parsedCert |-> Certificate([ isString |-> TRUE, names |-> <<"testType">> ],
                                            "serial5",
                                            << Entry("dataField", <<"#", "6">>) >>),
                 decryptedFields |-> <<>> ],
    other |-> [ decodes |-> FALSE, decrypts |-> FALSE,
                parsedCert |-> Certificate([ isString |-> TRUE, names |-> <<"">> ],
                                           "", <<>>),
                decryptedFields |-> <<>> ] ]

ScriptNames == DOMAIN Scripts

\* the outputs the overlay host reports, as << txid, outputIndex >>
Outpoints == { << "abc123", 0 >>, << "abc123", 1 >>, << "def456", 0 >> }

Topics == { TopicIdentity, "unrelated_topic" }

\* payload.mode of the spend notification
SpendModes == { "none", "txid" }

\* payload.mode of the admission notification
AdmissionModes == { "locking-script", "whole-tx" }

\* mutant: the certificate is stored with the fields as they were parsed
outputAdded_StoresEncrypted(store, txid, outputIndex, outputScript, topic) ==
  IF topic # TopicIdentity
  THEN [ error |-> "", decoded |-> FALSE, store |-> store ]
  ELSE IF ~ outputScript.decodes
  THEN [ error |-> ScriptError, decoded |-> TRUE, store |-> store ]
  ELSE IF ~ outputScript.decrypts
  THEN [ error |-> DecryptError, decoded |-> TRUE, store |-> store ]
  ELSE IF Len(outputScript.decryptedFields) = 0
  THEN [ error |-> NoPubliclyRevealedAttributes, decoded |-> TRUE, store |-> store ]
  ELSE
    LET parsedCert == outputScript.parsedCert
        storedCertificateObject ==
          [ type |-> w3cTypes(parsedCert.type),
            serialNumber |-> parsedCert.serialNumber,
            subject |-> parsedCert.subject,
            certifier |-> parsedCert.certifier,
            revocationOutpoint |-> parsedCert.revocationOutpoint,
            fields |-> parsedCert.fields,
            keyring |-> parsedCert.keyring ]
    IN  [ error |-> "", decoded |-> TRUE,
          store |-> storeRecord(store, txid, outputIndex, storedCertificateObject) ]

\* mutant: a certificate that reveals nothing is stored all the same
outputAdded_StoresEmpty(store, txid, outputIndex, outputScript, topic) ==
  IF topic # TopicIdentity
  THEN [ error |-> "", decoded |-> FALSE, store |-> store ]
  ELSE IF ~ outputScript.decodes
  THEN [ error |-> ScriptError, decoded |-> TRUE, store |-> store ]
  ELSE IF ~ outputScript.decrypts
  THEN [ error |-> DecryptError, decoded |-> TRUE, store |-> store ]
  ELSE
    LET parsedCert == outputScript.parsedCert
        storedCertificateObject ==
          [ type |-> w3cTypes(parsedCert.type),
            serialNumber |-> parsedCert.serialNumber,
            subject |-> parsedCert.subject,
            certifier |-> parsedCert.certifier,
            revocationOutpoint |-> parsedCert.revocationOutpoint,
            fields |-> outputScript.decryptedFields,
            keyring |-> parsedCert.keyring ]
    IN  [ error |-> "", decoded |-> TRUE,
          store |-> storeRecord(store, txid, outputIndex, storedCertificateObject) ]

\* what outputAdded leaves behind, from the collection it finds: the error it
\* throws ("" when it returns), whether PushDrop.decode was invoked, and the
\* collection
outputAdded(store, txid, outputIndex, outputScript, topic) ==
  IF topic # TopicIdentity
  THEN [ error |-> "", decoded |-> FALSE, store |-> store ]
  ELSE IF ~ outputScript.decodes
  THEN [ error |-> ScriptError, decoded |-> TRUE, store |-> store ]
  ELSE IF ~ outputScript.decrypts
  THEN [ error |-> DecryptError, decoded |-> TRUE, store |-> store ]
  ELSE IF Len(outputScript.decryptedFields) = 0
  THEN [ error |-> NoPubliclyRevealedAttributes, decoded |-> TRUE, store |-> store ]
  ELSE
    LET parsedCert == outputScript.parsedCert
        storedCertificateObject ==
          [ type |-> w3cTypes(parsedCert.type),
            serialNumber |-> parsedCert.serialNumber,
            subject |-> parsedCert.subject,
            certifier |-> parsedCert.certifier,
            revocationOutpoint |-> parsedCert.revocationOutpoint,
            fields |-> outputScript.decryptedFields,
            keyring |-> parsedCert.keyring ]
    IN  [ error |-> "", decoded |-> TRUE,
          store |-> storeRecord(store, txid, outputIndex, storedCertificateObject) ]

\* outputSpent: the outcomes the call can have, each the error thrown and
\* the collection left
outputSpent(store, payload) ==
  IF payload.mode # "none"
  THEN { [ error |-> InvalidPayload, store |-> store ] }
  ELSE IF payload.topic # TopicIdentity
  THEN { [ error |-> "", store |-> store ] }
  ELSE { [ error |-> "", store |-> left ] :
           left \in deleteRecord(store, payload.txid, payload.outputIndex) }

\* mutant: the record is deleted whatever the topic
outputDeleted_AnyTopic(store, txid, outputIndex, topic) ==
  { [ error |-> "", store |-> left ] : left \in deleteRecord(store, txid, outputIndex) }

outputDeleted(store, txid, outputIndex, topic) ==
  IF topic # TopicIdentity
  THEN { [ error |-> "", store |-> store ] }
  ELSE { [ error |-> "", store |-> left ] : left \in deleteRecord(store, txid, outputIndex) }

outputEvicted(store, txid, outputIndex) ==
  { [ error |-> "", store |-> left ] : left \in deleteRecord(store, txid, outputIndex) }

\* outputAdmittedByTopic decodes the locking script and does nothing with it
outputAdmittedByTopic(store, payload) ==
  IF payload.mode # "locking-script"
  THEN [ error |-> InvalidPayload, decoded |-> FALSE, store |-> store ]
  ELSE IF payload.topic # TopicIdentity
  THEN [ error |-> "", decoded |-> FALSE, store |-> store ]
  ELSE IF ~ payload.lockingScript.decodes
  THEN [ error |-> ScriptError, decoded |-> TRUE, store |-> store ]
  ELSE [ error |-> "", decoded |-> TRUE, store |-> store ]

\* The handlers, each called by the overlay host and run to its end.
OutputAdded ==
  \E o \in Outpoints, name \in ScriptNames, topic \in Topics :
    LET r == outputAdded(records, o[1], o[2], Scripts[name], topic)
    IN  /\ Len(r.store) <= MaxRecords
        /\ records' = r.store
        /\ lastCall' = CallRecord("outputAdded", o[1], o[2], topic, name, "",
                                  r.decoded, r.error, records)
        /\ UNCHANGED << didVars, callVars, moreVars >>

OutputSpent ==
  \E o \in Outpoints, topic \in Topics, mode \in SpendModes :
    \E r \in outputSpent(records, [ mode |-> mode, topic |-> topic,
                                    txid |-> o[1], outputIndex |-> o[2] ]) :
      /\ records' = r.store
      /\ lastCall' = CallRecord("outputSpent", o[1], o[2], topic, "", mode,
                                FALSE, r.error, records)
      /\ UNCHANGED << didVars, callVars, moreVars >>

OutputDeleted ==
  \E o \in Outpoints, topic \in Topics :
    \E r \in outputDeleted(records, o[1], o[2], topic) :
      /\ records' = r.store
      /\ lastCall' = CallRecord("outputDeleted", o[1], o[2], topic, "", "",
                                FALSE, r.error, records)
      /\ UNCHANGED << didVars, callVars, moreVars >>

OutputEvicted ==
  \E o \in Outpoints :
    \E r \in outputEvicted(records, o[1], o[2]) :
      /\ records' = r.store
      /\ lastCall' = CallRecord("outputEvicted", o[1], o[2], "", "", "",
                                FALSE, r.error, records)
      /\ UNCHANGED << didVars, callVars, moreVars >>

OutputAdmittedByTopic ==
  \E o \in Outpoints, name \in ScriptNames, topic \in Topics, mode \in AdmissionModes :
    LET r == outputAdmittedByTopic(records, [ mode |-> mode, topic |-> topic,
                                              txid |-> o[1], outputIndex |-> o[2],
                                              lockingScript |-> Scripts[name] ])
    IN  /\ records' = r.store
        /\ lastCall' = CallRecord("outputAdmittedByTopic", o[1], o[2], topic, name,
                                  mode, r.decoded, r.error, records)
        /\ UNCHANGED << didVars, callVars, moreVars >>

NextLookup ==
  OutputAdded \/ OutputSpent \/ OutputDeleted \/ OutputEvicted \/ OutputAdmittedByTopic

\* the lookup service makes no use of the base58 primitive
InitLookup == Init /\ fromBase58RejectsEmpty

SpecLookup == InitLookup /\ [][NextLookup]_vars

\* the latest call was outputAdded for the identity topic, with a script
\* whose certificate decrypts to at least one field
AddedRevealing ==
  /\ lastCall.handler = "outputAdded"
  /\ lastCall.topic = TopicIdentity
  /\ Scripts[lastCall.script].decodes
  /\ Scripts[lastCall.script].decrypts
  /\ Scripts[lastCall.script].decryptedFields # <<>>

\* exactly one document was appended by the latest call, for its outpoint and
\* with the decrypted fields in place of the parsed ones
InsertedOne ==
  /\ lastCall.returned
  /\ Len(records) = Len(lastCall.before) + 1
  /\ SubSeq(records, 1, Len(lastCall.before)) = lastCall.before
  /\ LET inserted == records[Len(records)]
     IN  /\ inserted.txid = lastCall.txid
         /\ inserted.outputIndex = lastCall.outputIndex
         /\ inserted.certificate.fields = Scripts[lastCall.script].decryptedFields
         /\ inserted.certificate.fields # Scripts[lastCall.script].parsedCert.fields

C18_TopicFilter ==
  (lastCall.handler \in { "outputAdded", "outputSpent", "outputDeleted" }
     /\ lastCall.topic # TopicIdentity)
    => /\ records = lastCall.before
       /\ ~ lastCall.decoded
       /\ lastCall.handler = "outputAdded" => lastCall.returned

\* outputDeleted with another topic left a record of its outpoint in place
C18_Witness ==
  /\ lastCall.handler = "outputDeleted"
  /\ lastCall.topic = "unrelated_topic"
  /\ lastCall.returned
  /\ matching(records, lastCall.txid, lastCall.outputIndex) # {}

\* C19: outputAdded for 'tm_identity' with a certificate that decrypts to no
\* field fails with 'No publicly revealed attributes present!' and nothing is
\* inserted.
C19_EmptyFieldsRejected ==
  (/\ lastCall.handler = "outputAdded"
   /\ lastCall.topic = TopicIdentity
   /\ Scripts[lastCall.script].decodes
   /\ Scripts[lastCall.script].decrypts
   /\ Scripts[lastCall.script].decryptedFields = <<>>)
    => /\ ~ lastCall.returned
       /\ lastCall.error = NoPubliclyRevealedAttributes
       /\ records = lastCall.before

\* the call was rejected with a record already in the collection
C19_Witness ==
  /\ lastCall.handler = "outputAdded"
  /\ lastCall.script = "empty"
  /\ lastCall.error = NoPubliclyRevealedAttributes
  /\ Len(records) = 1

\* the documents of all outpoints but the one given
others(store, txid, outputIndex) ==
  SelectSeq(store, LAMBDA doc : ~ (doc.txid = txid /\ doc.outputIndex = outputIndex))

\* C20: after outputSpent or outputDeleted for 'tm_identity' has returned the
\* collection holds no record of that txid and outputIndex, whatever
\* outputAdded calls came before (the same outpoint added twice included),
\* and the records of the other outpoints are as they were.
C20_NoRecordAfterSpend ==
  (lastCall.handler \in { "outputSpent", "outputDeleted" }
     /\ lastCall.topic = TopicIdentity /\ lastCall.returned)
    => /\ matching(records, lastCall.txid, lastCall.outputIndex) = {}
       /\ others(records, lastCall.txid, lastCall.outputIndex)
            = others(lastCall.before, lastCall.txid, lastCall.outputIndex)

\* ------------------------------------------------------------------------
\* Queries.  A parameter that may be undefined is a sequence: empty when it
\* is undefined, else holding the value.  An attributes object is a sequence
\* of [key, value] entries; a list of certifiers or of types is a sequence of
\* strings.

ServiceIdentity == "ls_identity"

ValidQueryMustBeProvided == "A valid query must be provided!"
LookupServiceNotSupported == "Lookup service not supported!"
ParamsMissing ==
  "One of the following params is missing: attribute, identityKey, certifier, or certificateType"

\* what the database answers to { $in: undefined }
InNeedsAnArray == "$in needs an array"

lowerCase == << "a", "b", "c", "d", "e", "f", "g", "h", "i", "j", "k", "l", "m",
                "n", "o", "p", "q", "r", "s", "t", "u", "v", "w", "x", "y", "z" >>

upperCase == << "A", "B", "C", "D", "E", "F", "G", "H", "I", "J", "K", "L", "M",
                "N", "O", "P", "Q", "R", "S", "T", "U", "V", "W", "X", "Y", "Z" >>

\* the letter a case-insensitive match compares
toLowerCase(c) ==
  IF \E at \in 1..Len(upperCase) : upperCase[at] = c
  THEN lowerCase[CHOOSE at \in 1..Len(upperCase) : upperCase[at] = c]
  ELSE c

\* getFuzzyRegex(input).test(text) for an input of letters and digits: the
\* pattern is the input's characters joined by '.*', matched anywhere in the
\* text without regard to case
RECURSIVE getFuzzyRegex(_, _)
getFuzzyRegex(input, text) ==
  IF input = <<>> THEN TRUE
  ELSE IF text = <<>> THEN FALSE
  ELSE IF toLowerCase(input[1]) = toLowerCase(text[1])
  THEN getFuzzyRegex(Tail(input), Tail(text))
  ELSE getFuzzyRegex(input, Tail(text))

\* A filter handed to records.find: each condition is a sequence, empty when
\* the filter has no such condition.
Filter(serialNumber, subject, certifierIn, typeIn, searchable, fieldRegexes) ==
  [ serialNumber |-> serialNumber, subject |-> subject, certifierIn |-> certifierIn,
    typeIn |-> typeIn, searchable |-> searchable, fieldRegexes |-> fieldRegexes ]

\* the filter {}
EmptyFilter == Filter(<<>>, <<>>, <<>>, <<>>, <<>>, <<>>)

elements(list) == { list[n] : n \in 1..Len(list) }

\* whether a document satisfies a filter
satisfies(doc, filter) ==
  /\ filter.serialNumber # <<>> => doc.certificate.serialNumber = filter.serialNumber[1]
  /\ filter.subject # <<>> => doc.certificate.subject = filter.subject[1]
  /\ filter.certifierIn # <<>>
       => doc.certificate.certifier \in elements(filter.certifierIn[1])
  /\ filter.typeIn # <<>>
       => elements(doc.certificate.type) \cap elements(filter.typeIn[1]) # {}
  /\ filter.searchable # <<>>
       => getFuzzyRegex(filter.searchable[1], doc.searchableAttributes)
  /\ \A condition \in elements(filter.fieldRegexes) :
       \E entry \in elements(doc.certificate.fields) :
         /\ entry.key = condition.key
         /\ getFuzzyRegex(condition.value, entry.value)

\* mutant: the answer holds the first match only
findRecordWithQuery_First(store, filter) ==
  LET found == SelectSeq(store, LAMBDA doc : satisfies(doc, filter))
  IN  [ error |-> "",
        answer |-> [n \in 1..(IF Len(found) > 0 THEN 1 ELSE 0) |->
                      [ txid |-> found[n].txid, outputIndex |-> found[n].outputIndex ]],
        dbQueries |-> << filter >> ]

\* findRecordWithQuery: records.find(query).project({ txid, outputIndex })
findRecordWithQuery(store, filter) ==
  LET found == SelectSeq(store, LAMBDA doc : satisfies(doc, filter))
  IN  [ error |-> "",
        answer |-> [n \in 1..Len(found) |->
                      [ txid |-> found[n].txid, outputIndex |-> found[n].outputIndex ]],
        dbQueries |-> << filter >> ]

\* a finder that returns [] without reaching the collection
NoResults == [ error |-> "", answer |-> <<>>, dbQueries |-> <<>> ]

findByAttribute(store, attributes, certifiers) ==
  IF attributes = <<>> \/ Len(attributes[1]) = 0
  THEN NoResults
  ELSE IF certifiers = <<>>
  THEN [ error |-> InNeedsAnArray, answer |-> <<>>,
         dbQueries |-> << Filter(<<>>, <<>>, <<>>, <<>>, <<>>, attributes[1]) >> ]
  ELSE IF \E entry \in elements(attributes[1]) : entry.key = "any"
  THEN findRecordWithQuery(store,
         Filter(<<>>, <<>>, certifiers, <<>>,
                << (CHOOSE entry \in elements(attributes[1]) : entry.key = "any").value >>,
                <<>>))
  ELSE findRecordWithQuery(store,
         Filter(<<>>, <<>>, certifiers, <<>>, <<>>, attributes[1]))

findByIdentityKey(store, identityKey, certifiers) ==
  IF identityKey = <<>>
  THEN NoResults
  ELSE IF certifiers # <<>> /\ Len(certifiers[1]) > 0
  THEN findRecordWithQuery(store, Filter(<<>>, identityKey, certifiers, <<>>, <<>>, <<>>))
  ELSE findRecordWithQuery(store, Filter(<<>>, identityKey, <<>>, <<>>, <<>>, <<>>))

\* mutant: an empty list of certifiers is queried for
findByCertifier_EmptyQueried(store, certifiers) ==
  IF certifiers = <<>>
  THEN NoResults
  ELSE findRecordWithQuery(store, Filter(<<>>, <<>>, certifiers, <<>>, <<>>, <<>>))

findByCertifier(store, certifiers) ==
  IF certifiers = <<>> \/ Len(certifiers[1]) = 0
  THEN NoResults
  ELSE findRecordWithQuery(store, Filter(<<>>, <<>>, certifiers, <<>>, <<>>, <<>>))

findByCertificateType(store, certificateTypes, identityKey, certifiers) ==
  IF \/ certificateTypes = <<>> \/ Len(certificateTypes[1]) = 0
     \/ identityKey = <<>>
     \/ certifiers = <<>> \/ Len(certifiers[1]) = 0
  THEN NoResults
  ELSE findRecordWithQuery(store,
         Filter(<<>>, identityKey, certifiers, certificateTypes, <<>>, <<>>))

findByCertificateSerialNumber(store, serialNumber) ==
  IF serialNumber = <<>> \/ serialNumber[1] = ""
  THEN NoResults
  ELSE findRecordWithQuery(store, Filter(serialNumber, <<>>, <<>>, <<>>, <<>>, <<>>))

\* A call on the storage manager: the method and the arguments it was given
\* (those the method does not take left empty).
StorageCall(method, serialNumber, attributes, identityKey, certifiers, certificateTypes) ==
  [ method |-> method, serialNumber |-> serialNumber, attributes |-> attributes,
    identityKey |-> identityKey, certifiers |-> certifiers,
    certificateTypes |-> certificateTypes ]

\* the query of a question: undefined, null, or an object with the five
\* parameters and extraKeys further own properties (a property of another
\* name, or one of the five set to undefined)
Query(kind, serialNumber, attributes, identityKey, certifiers, certificateTypes, extraKeys) ==
  [ kind |-> kind, serialNumber |-> serialNumber, attributes |-> attributes,
    identityKey |-> identityKey, certifiers |-> certifiers,
    certificateTypes |-> certificateTypes, extraKeys |-> extraKeys ]

\* mutant: only the five parameters count as keys
keysLength_KnownOnly(query) ==
  Len(query.serialNumber) + Len(query.attributes) + Len(query.identityKey)
    + Len(query.certifiers) + Len(query.certificateTypes)

\* Object.keys(query).length
keysLength(query) ==
  Len(query.serialNumber) + Len(query.attributes) + Len(query.identityKey)
    + Len(query.certifiers) + Len(query.certificateTypes) + query.extraKeys

\* what a storage call made by lookup adds to lookup's outcome
answered(found, call) ==
  [ error |-> found.error, answer |-> found.answer,
    storageCalls |-> << call >>, dbQueries |-> found.dbQueries ]

\* lookup throws before it calls the storage manager
refused(error) ==
  [ error |-> error, answer |-> <<>>, storageCalls |-> <<>>, dbQueries |-> <<>> ]

\* the query answered: the first of the rules that fits decides the storage
\* call
dispatch(store, questionToAnswer) ==
  IF keysLength(questionToAnswer) = 0
  THEN answered(findRecordWithQuery(store, EmptyFilter),
                StorageCall("findRecordWithQuery", <<>>, <<>>, <<>>, <<>>, <<>>))
  ELSE IF questionToAnswer.serialNumber # <<>>
  THEN answered(findByCertificateSerialNumber(store, questionToAnswer.serialNumber),
                StorageCall("findByCertificateSerialNumber",
                            questionToAnswer.serialNumber, <<>>, <<>>, <<>>, <<>>))
  ELSE IF questionToAnswer.attributes # <<>> /\ questionToAnswer.certifiers # <<>>
  THEN answered(findByAttribute(store, questionToAnswer.attributes,
                                questionToAnswer.certifiers),
                StorageCall("findByAttribute", <<>>, questionToAnswer.attributes,
                            <<>>, questionToAnswer.certifiers, <<>>))
  ELSE IF /\ questionToAnswer.identityKey # <<>>
          /\ questionToAnswer.certificateTypes # <<>>
          /\ questionToAnswer.certifiers # <<>>
  THEN answered(findByCertificateType(store, questionToAnswer.certificateTypes,
                                      questionToAnswer.identityKey,
                                      questionToAnswer.certifiers),
                StorageCall("findByCertificateType", <<>>, <<>>,
                            questionToAnswer.identityKey, questionToAnswer.certifiers,
                            questionToAnswer.certificateTypes))
  ELSE IF questionToAnswer.identityKey # <<>> /\ questionToAnswer.certifiers # <<>>
  THEN answered(findByIdentityKey(store, questionToAnswer.identityKey,
                                  questionToAnswer.certifiers),
                StorageCall("findByIdentityKey", <<>>, <<>>,
                            questionToAnswer.identityKey, questionToAnswer.certifiers,
                            <<>>))
  ELSE IF questionToAnswer.certifiers # <<>>
  THEN answered(findByCertifier(store, questionToAnswer.certifiers),
                StorageCall("findByCertifier", <<>>, <<>>, <<>>,
                            questionToAnswer.certifiers, <<>>))
  ELSE refused(ParamsMissing)

\* mutant: the service name is checked before the query
lookup_ServiceFirst(store, question) ==
  IF question.service # ServiceIdentity
  THEN refused(LookupServiceNotSupported)
  ELSE IF question.query.kind # "object"
  THEN refused(ValidQueryMustBeProvided)
  ELSE dispatch(store, question.query)

lookup(store, question) ==
  IF question.query.kind # "object"
  THEN refused(ValidQueryMustBeProvided)
  ELSE IF question.service # ServiceIdentity
  THEN refused(LookupServiceNotSupported)
  ELSE dispatch(store, question.query)

\* mutant: the record is looked for by txid alone
getRecord_ByTxid(store, txid, outputIndex) ==
  IF { n \in 1..Len(store) : store[n].txid = txid } = {} THEN { <<>> }
  ELSE { << store[n] >> : n \in { m \in 1..Len(store) : store[m].txid = txid } }

\* getRecord: records.findOne({ txid, outputIndex }) hands back one of the
\* matching documents; the result is the set of what it can hand back, each a
\* sequence that is empty for null
getRecord(store, txid, outputIndex) ==
  IF matching(store, txid, outputIndex) = {} THEN { <<>> }
  ELSE { << store[n] >> : n \in matching(store, txid, outputIndex) }

\* new SDKCertificate(type, serialNumber, subject, certifier,
\* revocationOutpoint, fields, undefined)
SDKCertificate(type, serialNumber, subject, certifier, revocationOutpoint, fields) ==
  [ type |-> type, serialNumber |-> serialNumber, subject |-> subject,
    certifier |-> certifier, revocationOutpoint |-> revocationOutpoint,
    fields |-> fields, signature |-> <<>> ]

\* the type the rebuilt certificate is given
sdkCertType(type) ==
  IF Len(type) > 1 THEN type[2]
  ELSE IF Len(type) = 1 THEN type[1]
  ELSE "Unknown"

VerifyFailed == "verify() failed"

\* verifyOutputCertification, with verifies the outcome of verify() on the
\* rebuilt certificate, "true", "false" or "throws": the outcomes the call can
\* have, each the error thrown, the certificate returned in a sequence (empty
\* for null), the number of verify() calls, and the collection left
verifyOutputCertification(store, txid, outputIndex, verifies) ==
  { IF record = <<>>
    THEN [ error |-> "", answer |-> <<>>, verifyCalls |-> 0, store |-> store ]
    ELSE
      LET storedCert == record[1].certificate
          sdkCertInstance ==
            SDKCertificate(sdkCertType(storedCert.type), storedCert.serialNumber,
                           storedCert.subject, storedCert.certifier,
                           storedCert.revocationOutpoint, storedCert.fields)
      IN  IF verifies = "throws"
          THEN [ error |-> VerifyFailed, answer |-> <<>>, verifyCalls |-> 1,
                 store |-> store ]
          ELSE IF verifies = "true"
          THEN [ error |-> "", answer |-> << sdkCertInstance >>, verifyCalls |-> 1,
                 store |-> store ]
          ELSE [ error |-> "", answer |-> <<>>, verifyCalls |-> 1, store |-> store ]
    : record \in getRecord(store, txid, outputIndex) }

\* ------------------------------------------------------------------------
\* The inputs of the queries

StoredCertificate(type, serialNumber, fields) ==
  [ type |-> type, serialNumber |-> serialNumber, subject |-> "sV",
    certifier |-> "cV", revocationOutpoint |-> "roV", fields |-> fields ]

\* certificates handed to storeRecord: one of a single type whose fields
\* include a photo and an icon between the others, one of two types, and one
\* without type whose only field is an icon
StoredCertificates ==
  { StoredCertificate(<< "VerifiableCredential" >>, "testSerial",
                      << Entry("firstName", << "A", "l" >>),
                         Entry("profilePhoto", << "p", "h" >>),
                         Entry("lastName", << "E", "x" >>),
                         Entry("icon", << "i", "c" >>) >>),
    StoredCertificate(<< "VerifiableCredential", "BRC52IdentityCertificate" >>,
                      "serial2", << Entry("name", << "B", "o" >>) >>),
    StoredCertificate(<<>>, "serial3", << Entry("icon", << "i", "c" >>) >>) }

StoredOutpoints == { << "txid1", 0 >>, << "txid1", 1 >> }

Services == { ServiceIdentity, "ls_other" }

SerialNumbers == { <<>>, << "" >>, << "testSerial" >> }
AttributeObjects == { <<>>, << <<>> >>, << << Entry("any", << "a", "X" >>) >> >>,
                      << << Entry("name", << "b" >>) >> >> }
IdentityKeys == { <<>>, << "sV" >> }
CertifierLists == { <<>>, << <<>> >>, << << "cV" >> >> }
CertificateTypeLists == { <<>>, << <<>> >>, << << "BRC52IdentityCertificate" >> >> }

\* the parameters defined or not, in every combination, with a value each
DefinedQueries ==
  { Query("object", serialNumber, attributes, identityKey, certifiers, certificateTypes, 0) :
      serialNumber \in { <<>>, << "testSerial" >> },
      attributes \in { <<>>, << << Entry("any", << "a", "X" >>) >> >> },
      identityKey \in IdentityKeys,
      certifiers \in { <<>>, << << "cV" >> >> },
      certificateTypes \in { <<>>, << << "BRC52IdentityCertificate" >> >> } }

\* queries whose parameters are empty, and queries with a further property
OddQueries ==
  { Query("object", << "" >>, <<>>, <<>>, << << "cV" >> >>, <<>>, 0),
    Query("object", <<>>, << <<>> >>, << "sV" >>, << << "cV" >> >>, <<>>, 0),
    Query("object", <<>>, << << Entry("name", << "b" >>) >> >>, <<>>, << << "cV" >> >>, <<>>, 0),
    Query("object", <<>>, <<>>, << "sV" >>, << <<>> >>, <<>>, 0),
    Query("object", <<>>, <<>>, <<>>, << <<>> >>, <<>>, 0),
    Query("object", <<>>, <<>>, <<>>, <<>>, <<>>, 1),
    Query("object", <<>>, <<>>, <<>>, << << "cV" >> >>, <<>>, 1) }

NoQueries ==
  { Query("undefined", <<>>, <<>>, <<>>, <<>>, <<>>, 0),
    Query("null", <<>>, <<>>, <<>>, <<>>, <<>>, 0) }

EmptyQuery == Query("object", <<>>, <<>>, <<>>, <<>>, <<>>, 0)

Questions ==
  { [ service |-> ServiceIdentity, query |-> query ] :
      query \in DefinedQueries \cup OddQueries \cup NoQueries }
  \cup { [ service |-> "ls_other", query |-> query ] :
           query \in NoQueries \cup { EmptyQuery,
                                     Query("object", << "testSerial" >>, <<>>, <<>>,
                                           <<>>, <<>>, 0) } }

\* the direct calls of the finders
FinderCalls ==
  { StorageCall("findByAttribute", <<>>, attributes, <<>>, certifiers, <<>>) :
      attributes \in AttributeObjects, certifiers \in CertifierLists }
  \cup { StorageCall("findByIdentityKey", <<>>, <<>>, identityKey, certifiers, <<>>) :
           identityKey \in IdentityKeys, certifiers \in CertifierLists }
  \cup { StorageCall("findByCertifier", <<>>, <<>>, <<>>, certifiers, <<>>) :
           certifiers \in CertifierLists }
  \cup { StorageCall("findByCertificateType", <<>>, <<>>, identityKey, certifiers,
                     certificateTypes) :
           identityKey \in IdentityKeys, certifiers \in CertifierLists,
           certificateTypes \in CertificateTypeLists }
  \cup { StorageCall("findByCertificateSerialNumber", serialNumber, <<>>, <<>>, <<>>, <<>>) :
           serialNumber \in SerialNumbers }

\* the finder a storage call names, on its arguments
finder(store, call) ==
  CASE call.method = "findByAttribute"
         -> findByAttribute(store, call.attributes, call.certifiers)
    [] call.method = "findByIdentityKey"
         -> findByIdentityKey(store, call.identityKey, call.certifiers)
    [] call.method = "findByCertifier"
         -> findByCertifier(store, call.certifiers)
    [] call.method = "findByCertificateType"
         -> findByCertificateType(store, call.certificateTypes, call.identityKey,
                                  call.certifiers)
    [] call.method = "findByCertificateSerialNumber"
         -> findByCertificateSerialNumber(store, call.serialNumber)

VerifyOutcomes == { "true", "false", "throws" }

\* ------------------------------------------------------------------------
\* The operations on the collection, each run to its end.

StoreRecord ==
  \E o \in StoredOutpoints, certificate \in StoredCertificates :
    /\ Len(records) < MaxRecords
    /\ records' = storeRecord(records, o[1], o[2], certificate)
    /\ lastQuery' = QueryRecord("storeRecord",
                                [ txid |-> o[1], outputIndex |-> o[2],
                                  certificate |-> certificate ],
                                "", <<>>, <<>>, <<>>, 0, records)
    /\ UNCHANGED << didVars, callVars, lastCall, canon, handlers >>

Lookup ==
  \E question \in Questions :
    LET r == lookup(records, question)
    IN  /\ lastQuery' = QueryRecord("lookup", question, r.error, r.answer,
                                    r.storageCalls, r.dbQueries, 0, records)
        /\ UNCHANGED << didVars, callVars, lookupVars, canon, handlers >>

Find ==
  \E call \in FinderCalls :
    LET r == finder(records, call)
    IN  /\ lastQuery' = QueryRecord(call.method, call, r.error, r.answer,
                                    <<>>, r.dbQueries, 0, records)
        /\ UNCHANGED << didVars, callVars, lookupVars, canon, handlers >>

VerifyOutputCertification ==
  \E o \in StoredOutpoints, verifies \in VerifyOutcomes :
    \E r \in verifyOutputCertification(records, o[1], o[2], verifies) :
      /\ records' = r.store
      /\ lastQuery' = QueryRecord("verifyOutputCertification",
                                  [ txid |-> o[1], outputIndex |-> o[2],
                                    verifies |-> verifies ],
                                  r.error, r.answer, <<>>, <<>>, r.verifyCalls, records)
      /\ UNCHANGED << didVars, callVars, lastCall, canon, handlers >>

\* the lookup service over a collection that is being filled
NextQuery == StoreRecord \/ Lookup

SpecQuery == InitLookup /\ [][NextQuery]_vars

\* the storage manager called directly
NextStorage == StoreRecord \/ Find \/ VerifyOutputCertification

SpecStorage == InitLookup /\ [][NextStorage]_vars

\* ------------------------------------------------------------------------
\* Properties of the queries

\* the latest operation was lookup
LookedUp == lastQuery.op = "lookup"

\* the outpoints of the documents of a collection, in its order
outpoints(store) ==
  [n \in 1..Len(store) |-> [ txid |-> store[n].txid, outputIndex |-> store[n].outputIndex ]]

\* C21: lookup rejects invalid questions before touching storage.  An
\* undefined or null query fails with 'A valid query must be provided!',
\* whatever the service name; a defined query with a service other than
\* 'ls_identity' fails with 'Lookup service not supported!'; in both cases no
\* storage query is issued.
C21_InvalidQuestionRejected ==
  LookedUp
    => /\ lastQuery.input.query.kind \in { "undefined", "null" }
            => /\ lastQuery.error = ValidQueryMustBeProvided
               /\ lastQuery.storageCalls = <<>>
               /\ lastQuery.dbQueries = <<>>
       /\ (lastQuery.input.query.kind = "object"
             /\ lastQuery.input.service # ServiceIdentity)
            => /\ lastQuery.error = LookupServiceNotSupported
               /\ lastQuery.storageCalls = <<>>
               /\ lastQuery.dbQueries = <<>>

\* a null query for another service was turned down for its query, with two
\* records in the collection
C21_Witness ==
  /\ LookedUp
  /\ lastQuery.input.query.kind = "null"
  /\ lastQuery.input.service = "ls_other"
  /\ lastQuery.error = ValidQueryMustBeProvided
  /\ Len(records) = 2

\* C22: lookup with service 'ls_identity' and the empty query {} does not
\* fail: it returns the outpoints of all stored records, and the empty array
\* when the collection is empty.
C22_EmptyQueryReturnsAll ==
  (LookedUp /\ lastQuery.input.service = ServiceIdentity
     /\ lastQuery.input.query = EmptyQuery)
    => /\ lastQuery.returned
       /\ lastQuery.answer = outpoints(records)
       /\ records = <<>> => lastQuery.answer = <<>>

\* the empty query was answered with the outpoints of two records
C22_Witness ==
  /\ LookedUp
  /\ lastQuery.input.service = ServiceIdentity
  /\ lastQuery.input.query = EmptyQuery
  /\ Len(lastQuery.answer) = 2
  /\ lastQuery.answer[1] # lastQuery.answer[2]

\* the latest operation was a direct call of a finder
Found ==
  lastQuery.op \in { "findByAttribute", "findByIdentityKey", "findByCertifier",
                     "findByCertificateType", "findByCertificateSerialNumber" }

\* an optional list or object that is undefined or empty
missing(parameter) == parameter = <<>> \/ Len(parameter[1]) = 0

\* C23: the missing-parameter guards.  findByAttribute (attributes undefined
\* or empty), findByIdentityKey (identityKey undefined), findByCertifier
\* (certifiers undefined or empty), findByCertificateType (certificateTypes
\* or certifiers undefined or empty, or identityKey undefined) and
\* findByCertificateSerialNumber (undefined or '') return the empty array
\* without a query of the collection.
C23_MissingParameterGuards ==
  (/\ Found
   /\ \/ lastQuery.op = "findByAttribute" /\ missing(lastQuery.input.attributes)
      \/ lastQuery.op = "findByIdentityKey" /\ lastQuery.input.identityKey = <<>>
      \/ lastQuery.op = "findByCertifier" /\ missing(lastQuery.input.certifiers)
      \/ /\ lastQuery.op = "findByCertificateType"
         /\ \/ missing(lastQuery.input.certificateTypes)
            \/ missing(lastQuery.input.certifiers)
            \/ lastQuery.input.identityKey = <<>>
      \/ /\ lastQuery.op = "findByCertificateSerialNumber"
         /\ lastQuery.input.serialNumber \in { <<>>, << "" >> })
    => /\ lastQuery.returned
       /\ lastQuery.answer = <<>>
       /\ lastQuery.dbQueries = <<>>

\* findByCertifier was given an empty list while the collection held two
\* records, and returned nothing without a query
C23_Witness ==
  /\ lastQuery.op = "findByCertifier"
  /\ lastQuery.input.certifiers = << <<>> >>
  /\ lastQuery.answer = <<>>
  /\ lastQuery.dbQueries = <<>>
  /\ Len(records) = 2

\* the characters the searchable fields among the first upTo fields take,
\* each field followed by one separator
RECURSIVE width(_, _)
width(fields, upTo) ==
  IF upTo = 0 THEN 0
  ELSE width(fields, upTo - 1)
         + (IF fields[upTo].key \in { "profilePhoto", "icon" } THEN 0
            ELSE Len(fields[upTo].value) + 1)

\* text is the values of the searchable fields, in field order, with one
\* space between two of them
IsSpacedJoin(text, fields) ==
  /\ Len(text) = (IF width(fields, Len(fields)) = 0 THEN 0
                  ELSE width(fields, Len(fields)) - 1)
  /\ \A n \in 1..Len(fields) :
       fields[n].key \notin { "profilePhoto", "icon" }
         => /\ SubSeq(text, width(fields, n - 1) + 1,
                      width(fields, n - 1) + Len(fields[n].value)) = fields[n].value
            /\ width(fields, n) <= Len(text) => text[width(fields, n)] = " "

\* C24: storeRecord inserts exactly one record with the given txid,
\* outputIndex and certificate, whose searchableAttributes is the
\* space-separated join, in field order, of the values of all fields except
\* 'profilePhoto' and 'icon'.
C24_StoreRecord ==
  lastQuery.op = "storeRecord"
    => /\ Len(records) = Len(lastQuery.before) + 1
       /\ SubSeq(records, 1, Len(lastQuery.before)) = lastQuery.before
       /\ LET inserted == records[Len(records)]
          IN  /\ inserted.txid = lastQuery.input.txid
              /\ inserted.outputIndex = lastQuery.input.outputIndex
              /\ inserted.certificate = lastQuery.input.certificate
              /\ IsSpacedJoin(inserted.searchableAttributes,
                              lastQuery.input.certificate.fields)

\* a certificate with a photo between two names and an icon after them was
\* stored as a second record: the names alone can be searched for
C24_Witness ==
  /\ lastQuery.op = "storeRecord"
  /\ Len(records) = 2
  /\ Len(records[2].certificate.fields) = 4
  /\ records[2].certificate.fields[2].key = "profilePhoto"
  /\ records[2].searchableAttributes = << "A", "l", " ", "E", "x" >>

\* the latest operation was verifyOutputCertification
Verified == lastQuery.op = "verifyOutputCertification"

\* the records of the outpoint the latest operation was about, as they were
\* when it began
recordsOfOutpoint ==
  { lastQuery.before[n] :
      n \in matching(lastQuery.before, lastQuery.input.txid, lastQuery.input.outputIndex) }

\* C25: verifyOutputCertification(txid, outputIndex) returns a certificate
\* if and only if a record exists for that outpoint and verify() of the
\* certificate rebuilt from it returns true; it returns null when no record
\* exists (verify() is then not called) or when verify() returns false, and
\* it never modifies the collection.
C25_VerifyOutputCertification ==
  Verified
    => /\ lastQuery.answer # <<>>
            <=> (recordsOfOutpoint # {} /\ lastQuery.input.verifies = "true")
       /\ lastQuery.answer # <<>>
            => \E record \in recordsOfOutpoint :
                 /\ lastQuery.answer[1].serialNumber = record.certificate.serialNumber
                 /\ lastQuery.answer[1].fields = record.certificate.fields
       /\ recordsOfOutpoint = {}
            => lastQuery.returned /\ lastQuery.answer = <<>> /\ lastQuery.verifyCalls = 0
       /\ (recordsOfOutpoint # {} /\ lastQuery.input.verifies = "false")
            => lastQuery.returned /\ lastQuery.answer = <<>> /\ lastQuery.verifyCalls = 1
       /\ records = lastQuery.before

\* null was returned for an outpoint without record, without a verify() call,
\* while the other outpoint of the transaction had a record
C25_Witness ==
  /\ Verified
  /\ lastQuery.input.verifies = "true"
  /\ recordsOfOutpoint = {}
  /\ lastQuery.answer = <<>>
  /\ lastQuery.verifyCalls = 0
  /\ \E n \in 1..Len(records) : records[n].txid = lastQuery.input.txid

\* C26: the certificate returned by verifyOutputCertification has as its
\* type the first element of the stored certificate's type array, for a
\* stored type of one element and for one of two elements alike.
C26_FirstType ==
  (Verified /\ lastQuery.answer # <<>>)
    => \A record \in recordsOfOutpoint :
         (record.certificate.serialNumber = lastQuery.answer[1].serialNumber
            /\ Len(record.certificate.type) > 0)
           => lastQuery.answer[1].type = record.certificate.type[1]

\* lookup made one call on the storage manager, of the given method
made(method) ==
  /\ Len(lastQuery.storageCalls) = 1
  /\ lastQuery.storageCalls[1].method = method

\* C27: lookup issues exactly one storage query, chosen by the first rule
\* that matches: serialNumber defined -> by serial number, whatever else is
\* present; attributes and certifiers defined -> findByAttribute;
\* identityKey, certificateTypes and certifiers defined ->
\* findByCertificateType; identityKey and certifiers defined ->
\* findByIdentityKey; certifiers defined -> findByCertifier; any other
\* non-empty query fails with 'One of the following params is missing: ...'.
C27_DispatchOrder ==
  (/\ LookedUp
   /\ lastQuery.input.service = ServiceIdentity
   /\ lastQuery.input.query.kind = "object"
   /\ lastQuery.input.query # EmptyQuery)
    => LET asked == lastQuery.input.query
           bySerial == asked.serialNumber # <<>>
           byAttribute == asked.attributes # <<>> /\ asked.certifiers # <<>>
           byType == /\ asked.identityKey # <<>>
                     /\ asked.certificateTypes # <<>>
                     /\ asked.certifiers # <<>>
           byIdentityKey == asked.identityKey # <<>> /\ asked.certifiers # <<>>
           byCertifier == asked.certifiers # <<>>
       IN  /\ bySerial
                => /\ made("findByCertificateSerialNumber")
                   /\ lastQuery.storageCalls[1].serialNumber = asked.serialNumber
           /\ (~ bySerial /\ byAttribute)
                => /\ made("findByAttribute")
                   /\ lastQuery.storageCalls[1].attributes = asked.attributes
                   /\ lastQuery.storageCalls[1].certifiers = asked.certifiers
           /\ (~ bySerial /\ ~ byAttribute /\ byType)
                => /\ made("findByCertificateType")
                   /\ lastQuery.storageCalls[1].certificateTypes = asked.certificateTypes
                   /\ lastQuery.storageCalls[1].identityKey = asked.identityKey
                   /\ lastQuery.storageCalls[1].certifiers = asked.certifiers
           /\ (~ bySerial /\ ~ byAttribute /\ ~ byType /\ byIdentityKey)
                => /\ made("findByIdentityKey")
                   /\ lastQuery.storageCalls[1].identityKey = asked.identityKey
                   /\ lastQuery.storageCalls[1].certifiers = asked.certifiers
           /\ (~ bySerial /\ ~ byAttribute /\ ~ byIdentityKey /\ byCertifier)
                => /\ made("findByCertifier")
                   /\ lastQuery.storageCalls[1].certifiers = asked.certifiers
           /\ (~ bySerial /\ ~ byCertifier)
                => /\ lastQuery.error = ParamsMissing
                   /\ lastQuery.storageCalls = <<>>
                   /\ lastQuery.dbQueries = <<>>
           /\ Len(lastQuery.dbQueries) <= 1

\* a query holding all five parameters was answered by serial number, with
\* one query of the collection that found the record
C27_Witness ==
  /\ LookedUp
  /\ lastQuery.input.query.serialNumber = << "testSerial" >>
  /\ lastQuery.input.query.attributes # <<>>
  /\ lastQuery.input.query.identityKey # <<>>
  /\ lastQuery.input.query.certifiers # <<>>
  /\ lastQuery.input.query.certificateTypes # <<>>
  /\ made("findByCertificateSerialNumber")
  /\ Len(lastQuery.dbQueries) = 1
  /\ Len(lastQuery.answer) = 1

\* the question for the records of a serial number
SerialQuestion(serialNumber) ==
  [ service |-> ServiceIdentity,
    query |-> Query("object", << serialNumber >>, <<>>, <<>>, <<>>, <<>>, 0) ]

\* C29: an output admitted through outputAdmittedByTopic (mode
\* 'locking-script', topic 'tm_identity', certificate with at least one
\* publicly revealed field) is stored: once the handler has returned the
\* collection holds a record for (txid, outputIndex) and a lookup by the
\* certificate's serial number returns the outpoint.
C29_AdmittedIsStored ==
  (/\ lastCall.handler = "outputAdmittedByTopic"
   /\ lastCall.mode = "locking-script"
   /\ lastCall.topic = TopicIdentity
   /\ Scripts[lastCall.script].decodes
   /\ Scripts[lastCall.script].decrypts
   /\ Scripts[lastCall.script].decryptedFields # <<>>
   /\ lastCall.returned)
    => /\ matching(records, lastCall.txid, lastCall.outputIndex) # {}
       /\ [ txid |-> lastCall.txid, outputIndex |-> lastCall.outputIndex ]
            \in elements(lookup(records,
                                SerialQuestion(Scripts[lastCall.script].parsedCert.serialNumber)).answer)

\* ------------------------------------------------------------------------
\* Handlers that overlap.  A handler runs from its call to its first await
\* in one piece, and from an await that was answered to the next; between
\* two pieces any other handler may run.  outputAdded awaits decryptFields
\* and then storeRecord; outputSpent and outputDeleted await deleteRecord.
\* An insert or delete takes effect on the collection at some moment between
\* the await and its answer, here the moment the handler goes on.

\* handler executions started in one run
MaxHandlers == 3

\* the outpoint the overlapping handlers are called for
StepOutpoint == << "abc123", 0 >>

\* scripts of the overlapping outputAdded calls: one that reveals two fields,
\* one that reveals none, one that holds no certificate
StepScripts == { "plain", "empty", "other" }

\* an execution: the handler, its arguments, and where it stands: at an await
\* ("decryptFields", "storeRecord", "deleteRecord"), returned ("done") or
\* thrown ("failed")
Execution(handler, o, script, topic, mode, pc) ==
  [ handler |-> handler, txid |-> o[1], outputIndex |-> o[2], script |-> script,
    topic |-> topic, mode |-> mode, pc |-> pc ]

finished(execution) == execution.pc \in { "done", "failed" }

\* outputAdded from its call to the await of decryptFields
StartAdded ==
  \E name \in StepScripts, topic \in Topics :
    /\ Len(handlers) < MaxHandlers
    /\ handlers' = Append(handlers,
         Execution("outputAdded", StepOutpoint, name, topic, "",
                   IF topic # TopicIdentity THEN "done"
                   ELSE IF ~ Scripts[name].decodes THEN "failed"
                   ELSE "decryptFields"))
    /\ UNCHANGED << didVars, callVars, lookupVars, lastQuery, canon >>

\* outputAdded from the answer of decryptFields to the await of storeRecord
AddedDecrypted ==
  \E n \in 1..Len(handlers) :
    /\ handlers[n].pc = "decryptFields"
    /\ handlers' = [handlers EXCEPT ![n].pc =
                      IF ~ Scripts[handlers[n].script].decrypts THEN "failed"
                      ELSE IF Len(Scripts[handlers[n].script].decryptedFields) = 0
                      THEN "failed"
                      ELSE "storeRecord"]
    /\ UNCHANGED << didVars, callVars, lookupVars, lastQuery, canon >>

\* outputAdded from the answer of storeRecord to its end: the record is in
\* the collection
AddedStored ==
  \E n \in 1..Len(handlers) :
    /\ handlers[n].pc = "storeRecord"
    /\ records' = outputAdded(records, handlers[n].txid, handlers[n].outputIndex,
                              Scripts[handlers[n].script], handlers[n].topic).store
    /\ handlers' = [handlers EXCEPT ![n].pc = "done"]
    /\ UNCHANGED << didVars, callVars, lastCall, lastQuery, canon >>

\* outputSpent from its call to the await of deleteRecord
StartSpent ==
  \E topic \in Topics, mode \in SpendModes :
    /\ Len(handlers) < MaxHandlers
    /\ handlers' = Append(handlers,
         Execution("outputSpent", StepOutpoint, "", topic, mode,
                   IF mode # "none" THEN "failed"
                   ELSE IF topic # TopicIdentity THEN "done"
                   ELSE "deleteRecord"))
    /\ UNCHANGED << didVars, callVars, lookupVars, lastQuery, canon >>

\* outputDeleted from its call to the await of deleteRecord
StartDeleted ==
  \E topic \in Topics :
    /\ Len(handlers) < MaxHandlers
    /\ handlers' = Append(handlers,
         Execution("outputDeleted", StepOutpoint, "", topic, "",
                   IF topic # TopicIdentity THEN "done" ELSE "deleteRecord"))
    /\ UNCHANGED << didVars, callVars, lookupVars, lastQuery, canon >>

\* outputSpent or outputDeleted from the answer of deleteRecord to its end
Deleted ==
  \E n \in 1..Len(handlers) :
    /\ handlers[n].pc = "deleteRecord"
    /\ records' \in deleteRecord(records, handlers[n].txid, handlers[n].outputIndex)
    /\ handlers' = [handlers EXCEPT ![n].pc = "done"]
    /\ UNCHANGED << didVars, callVars, lastCall, lastQuery, canon >>

NextSteps ==
  StartAdded \/ AddedDecrypted \/ AddedStored \/ StartSpent \/ StartDeleted \/ Deleted

SpecSteps == InitLookup /\ [][NextSteps]_vars

\* the execution is a spend of the identity topic that has returned
spendReturned(execution) ==
  /\ execution.handler \in { "outputSpent", "outputDeleted" }
  /\ execution.topic = TopicIdentity
  /\ execution.pc = "done"

\* C30: under every interleaving of outputAdded and outputSpent or
\* outputDeleted executions for one outpoint, once the spend handler has
\* returned and every handler started before it has finished, the collection
\* holds no record for the outpoint.  Stated for runs in which the output is
\* added once, and not after the spend was called.
C30_SpentNeverResolvable ==
  \A n \in 1..Len(handlers) :
    (/\ spendReturned(handlers[n])
     /\ \A m \in 1..(n - 1) : finished(handlers[m])
     /\ \A m \in (n + 1)..Len(handlers) : handlers[m].handler # "outputAdded"
     /\ Cardinality({ m \in 1..Len(handlers) : handlers[m].handler = "outputAdded" }) <= 1)
      => matching(records, handlers[n].txid, handlers[n].outputIndex) = {}
====
